---- MODULE Spec2Model ----
(***************************************************************************)
(* Bounding volume hierarchy of yt/utilities/lib/                          *)
(* bounding_volume_hierarchy.pyx: the constructor (BVH.__cinit__), the     *)
(* recursive builder, the ray/box and ray/triangle kernels, the traversal  *)
(* and the parallel ray-casting driver (cast_rays).                        *)
(*                                                                         *)
(* Numbers.  Mesh coordinates, ray origins and ray directions are small    *)
(* integers (exactly representable doubles).  Every value the code derives *)
(* from them is a "double" record, computed as IEEE-754 binary64 computes  *)
(* it, rounded to nearest with ties to even: k = "fin" is n/d with d a     *)
(* power of two and n, d below 2^31; k = "big" is n * m * 2^e with n the   *)
(* sign, m an odd natural number of at most 53 binary digits and e the     *)
(* exponent; k = "pinf", "ninf", "nan" are +inf, -inf and NaN.  The model  *)
(* stays inside the normal range: no overflow, no subnormal, no -0.        *)
(* Sequences are 1-based: C index i is position i + 1.                     *)
(***************************************************************************)
EXTENDS Integers, Sequences, FiniteSets, TLC

----------------------------------------------------------------------------
(* Bounds of the model *)

\* largest number of elements of a mesh
MaxElem == 5
\* largest number of rays in a batch
MaxRays == 2
\* largest number of threads of the parallel region
MaxWorkers == 2
\* number of elements of a mesh whose elements lie along a line
MaxChain == 11
\* largest number of elements of a mesh of reference elements built under
\* fair scheduling
MaxFairElem == 3

----------------------------------------------------------------------------
(* Program constants *)

LEAF_SIZE == 16
HEX_NV == 8
HEX_NT == 12
TETRA_NV == 4
TETRA_NT == 4
WEDGE_NV == 6
WEDGE_NT == 8

\* C index into a sequence
At0(s, i) == s[i + 1]

\* G applied to the value of x: x is evaluated first, as a statement that
\* precedes another is
Then(x, G(_)) == CHOOSE y \in {G(v) : v \in {x}} : TRUE

\* G applied to the values of x and y, both evaluated first, as the arguments
\* of a C call are
Then2(x, y, G(_, _)) == CHOOSE r \in {G(p[1], p[2]) : p \in {<<x, y>>}} : TRUE

\* triangulate_hex, triangulate_tetra, triangulate_wedge: local vertex
\* triples of the triangles of one element
triangulate_hex ==
  << <<0, 2, 1>>, <<0, 3, 2>>, <<4, 5, 6>>, <<4, 6, 7>>,
     <<0, 1, 5>>, <<0, 5, 4>>, <<1, 2, 6>>, <<1, 6, 5>>,
     <<0, 7, 3>>, <<0, 4, 7>>, <<3, 6, 2>>, <<3, 7, 6>> >>
triangulate_tetra ==
  << <<0, 2, 1>>, <<0, 1, 3>>, <<0, 3, 2>>, <<1, 2, 3>> >>
triangulate_wedge ==
  << <<0, 1, 2>>, <<0, 3, 1>>, <<1, 3, 4>>, <<0, 2, 3>>,
     <<2, 5, 3>>, <<1, 4, 2>>, <<2, 4, 5>>, <<3, 5, 4>> >>

----------------------------------------------------------------------------
(* Doubles *)

Abs(x) == IF x < 0 THEN -x ELSE x

RECURSIVE Gcd(_, _)
Gcd(a, b) == IF b = 0 THEN a ELSE Then2(b, a % b, Gcd)

\* Natural numbers of any size: sequences of digits in base Radix, least
\* significant digit first, without a zero as the last digit (zero is << >>)

Radix == 2 ^ 15

Digit(a, i) == IF i <= Len(a) THEN a[i] ELSE 0

RECURSIVE NatTrim(_)
NatTrim(a0) ==
  Then(a0, LAMBDA a :
    IF a = << >> THEN a
    ELSE IF a[Len(a)] # 0 THEN a
    ELSE NatTrim(SubSeq(a, 1, Len(a) - 1)))

RECURSIVE NatOfInt(_)
NatOfInt(x0) ==
  Then(x0, LAMBDA x :
    IF x = 0 THEN << >> ELSE << x % Radix >> \o NatOfInt(x \div Radix))

\* the value of a natural number below 2^31
RECURSIVE IntOfNat(_)
IntOfNat(a0) ==
  Then(a0, LAMBDA a :
    IF a = << >> THEN 0 ELSE a[1] + Radix * IntOfNat(Tail(a)))

\* number of binary digits of a digit, and of a natural number
DigitBits(x0) ==
  Then(x0, LAMBDA x :
    CHOOSE k \in 0..15 : x < 2 ^ k /\ (k = 0 \/ 2 ^ (k - 1) <= x))
NatBits(a0) ==
  Then(a0, LAMBDA a :
    IF a = << >> THEN 0 ELSE 15 * (Len(a) - 1) + DigitBits(a[Len(a)]))

RECURSIVE AddDigits(_, _, _, _)
AddDigits(a, b, i, c) ==
  IF i > Len(a) /\ i > Len(b) THEN (IF c = 0 THEN << >> ELSE << c >>)
  ELSE Then(Digit(a, i) + Digit(b, i) + c, LAMBDA s :
         << s % Radix >> \o AddDigits(a, b, i + 1, s \div Radix))
NatAdd(a0, b0) == Then2(a0, b0, LAMBDA a, b : AddDigits(a, b, 1, 0))

\* a - b for a >= b
RECURSIVE SubDigits(_, _, _, _)
SubDigits(a, b, i, c) ==
  IF i > Len(a) THEN << >>
  ELSE Then(Digit(a, i) - Digit(b, i) - c, LAMBDA s :
         << IF s < 0 THEN s + Radix ELSE s >>
           \o SubDigits(a, b, i + 1, IF s < 0 THEN 1 ELSE 0))
NatSub(a0, b0) ==
  Then2(a0, b0, LAMBDA a, b : NatTrim(SubDigits(a, b, 1, 0)))

\* -1, 0, 1 as a < b, a = b, a > b
NatCmp(a0, b0) ==
  Then2(a0, b0, LAMBDA a, b :
    IF Len(a) # Len(b) THEN (IF Len(a) < Len(b) THEN -1 ELSE 1)
    ELSE IF a = b THEN 0
    ELSE Then(CHOOSE i \in 1..Len(a) :
                a[i] # b[i] /\ \A j \in (i + 1)..Len(a) : a[j] = b[j],
              LAMBDA i : IF a[i] < b[i] THEN -1 ELSE 1))

\* a * x for a digit x
RECURSIVE MulDigits(_, _, _, _)
MulDigits(a, x, i, c) ==
  IF i > Len(a) THEN (IF c = 0 THEN << >> ELSE << c >>)
  ELSE Then(a[i] * x + c, LAMBDA p :
         << p % Radix >> \o MulDigits(a, x, i + 1, p \div Radix))
NatMulDigit(a0, x0) ==
  Then2(a0, x0, LAMBDA a, x : IF x = 0 THEN << >> ELSE MulDigits(a, x, 1, 0))

\* a * Radix^q
NatShiftDigits(a0, q) ==
  Then(a0, LAMBDA a : IF a = << >> THEN a ELSE [i \in 1..q |-> 0] \o a)

\* a * 2^s and a \div 2^s
NatShl(a0, s0) ==
  Then2(a0, s0, LAMBDA a, s :
    NatShiftDigits(NatMulDigit(a, 2 ^ (s % 15)), s \div 15))
NatShr(a0, s0) ==
  Then2(a0, s0, LAMBDA a, s :
    Then2(2 ^ (s % 15),
          IF s \div 15 >= Len(a) THEN << >>
          ELSE SubSeq(a, (s \div 15) + 1, Len(a)),
          LAMBDA p, rest :
            NatTrim([i \in 1..Len(rest) |->
                       (rest[i] \div p)
                       + (Digit(rest, i + 1) % p) * (Radix \div p)])))

RECURSIVE MulFrom(_, _, _)
MulFrom(a, b, j) ==
  IF j > Len(b) THEN << >>
  ELSE NatAdd(NatShiftDigits(NatMulDigit(a, b[j]), j - 1),
              MulFrom(a, b, j + 1))
NatMul(a0, b0) == Then2(a0, b0, LAMBDA a, b : MulFrom(a, b, 1))

NatIsOdd(a) == a # << >> /\ a[1] % 2 = 1

\* number of zero binary digits at the low end of a # 0
NatTrailingZeros(a0) ==
  Then(a0, LAMBDA a :
    Then(CHOOSE i \in 1..Len(a) : a[i] # 0 /\ \A j \in 1..(i - 1) : a[j] = 0,
         LAMBDA i :
           15 * (i - 1)
           + (CHOOSE k \in 0..14 :
                a[i] % 2 ^ (k + 1) # 0 /\ a[i] % 2 ^ k = 0)))

\* long division by an integer 0 < x < 2^30: the binary digits j, ..., 0 of
\* the digit dig are brought down one at a time
RECURSIVE DivBits(_, _, _, _, _)
DivBits(rem, dig, x, j, q) ==
  IF j < 0 THEN [q |-> q, rem |-> rem]
  ELSE Then(2 * rem + ((dig \div 2 ^ j) % 2), LAMBDA r :
         IF r >= x THEN DivBits(r - x, dig, x, j - 1, 2 * q + 1)
         ELSE DivBits(r, dig, x, j - 1, 2 * q))
RECURSIVE DivFrom(_, _, _, _)
DivFrom(a, x, i, rem) ==
  IF i = 0 THEN [q |-> << >>, rem |-> rem]
  ELSE Then(DivBits(rem, a[i], x, 14, 0), LAMBDA top :
         Then(DivFrom(a, x, i - 1, top.rem), LAMBDA low :
           [q |-> low.q \o << top.q >>, rem |-> low.rem]))
\* the same one digit at a time, for a divisor x <= Radix
RECURSIVE DivDigits(_, _, _, _)
DivDigits(a, x, i, rem) ==
  IF i = 0 THEN [q |-> << >>, rem |-> rem]
  ELSE Then(rem * Radix + a[i], LAMBDA top :
         Then(DivDigits(a, x, i - 1, top % x), LAMBDA low :
           [q |-> low.q \o << top \div x >>, rem |-> low.rem]))
\* quotient and remainder of a by x
NatDivInt(a0, x0) ==
  Then2(a0, x0, LAMBDA a, x :
    Then(IF x <= Radix THEN DivDigits(a, x, Len(a), 0)
         ELSE DivFrom(a, x, Len(a), 0),
         LAMBDA r : [q |-> NatTrim(r.q), rem |-> r.rem]))

\* DBL_MANT_DIG of np.float64_t
MANT_DIG == 53

FromInt(x) == [k |-> "fin", n |-> x, d |-> 1]
PInf == [k |-> "pinf", n |-> 1, d |-> 0]
NInf == [k |-> "ninf", n |-> -1, d |-> 0]
NaN == [k |-> "nan", n |-> 0, d |-> 0]
INF == PInf

\* the number n/d, d # 0, in lowest terms: a double when d is a power of
\* two; with another d, a rational that only the exact intervals of the
\* properties use
Fin(n0, d0) ==
  Then2(n0, d0, LAMBDA n, d :
    Then2(IF d < 0 THEN -1 ELSE 1, Gcd(Abs(n), Abs(d)), LAMBDA s, g :
      [k |-> "fin", n |-> (s * n) \div g, d |-> (s * d) \div g]))

IsNaN(x) == x.k = "nan"
IsFin(x) == x.k \in {"fin", "big"}
\* sign of a double that is not NaN
Sgn(x) == IF x.n > 0 THEN 1 ELSE IF x.n < 0 THEN -1 ELSE 0
OfSign(s) == IF s > 0 THEN PInf ELSE IF s < 0 THEN NInf ELSE NaN

IsPow2(d) == \E j \in 0..30 : 2 ^ j = d
Log2(d) == CHOOSE j \in 0..30 : 2 ^ j = d

\* a "fin" record whose numerator and denominator are below 2^15: products
\* of two such numbers fit a machine integer
Small(x) == x.k = "fin" /\ Abs(x.n) < Radix /\ x.d <= Radix

\* sign s, magnitude m (a natural number) and binary exponent e of a finite
\* double: its value is s * m * 2^e
Parts(x) ==
  IF x.k = "big" THEN [s |-> x.n, m |-> x.m, e |-> x.e]
  ELSE [s |-> Sgn(x), m |-> NatOfInt(Abs(x.n)), e |-> -Log2(x.d)]

\* the record of the double s * m * 2^e, m of at most MANT_DIG binary
\* digits: "fin" when numerator and denominator are below 2^31, "big"
\* with an odd m otherwise
Pack(s0, m0, e0) ==
  Then2(s0, m0, LAMBDA s, m1 :
    IF m1 = << >> THEN FromInt(0)
    ELSE Then(NatTrailingZeros(m1), LAMBDA tz :
      Then2(NatShr(m1, tz), e0 + tz, LAMBDA m, e :
        IF e >= 0 /\ NatBits(m) + e <= 30
          THEN [k |-> "fin", n |-> s * IntOfNat(m) * 2 ^ e, d |-> 1]
        ELSE IF e < 0 /\ NatBits(m) <= 30 /\ -e <= 30
          THEN [k |-> "fin", n |-> s * IntOfNat(m), d |-> 2 ^ (-e)]
        ELSE [k |-> "big", n |-> s, m |-> m, e |-> e])))

\* s * m * 2^e rounded to the nearest double, ties to even
Round(s0, m0, e0) ==
  Then2(s0, e0, LAMBDA s, e : Then(m0, LAMBDA m :
    IF NatBits(m) <= MANT_DIG THEN Pack(s, m, e)
    ELSE Then(NatBits(m) - MANT_DIG, LAMBDA drop :
      Then(NatShr(m, drop), LAMBDA q :
        Then(NatCmp(NatShl(NatSub(m, NatShl(q, drop)), 1),
                    NatShl(<< 1 >>, drop)),
             LAMBDA c :
          IF c > 0 \/ (c = 0 /\ NatIsOdd(q))
          THEN Pack(s, NatAdd(q, << 1 >>), e + drop)
          ELSE Pack(s, q, e + drop))))))

\* -1, 0, 1 as a < b, a = b, a > b for finite a and b: the signs, then the
\* magnitudes ma * 2^ea / da and mb * 2^eb / db brought to integers
Magnitude(x) ==
  IF x.k = "big" THEN [m |-> x.m, e |-> x.e, d |-> 1]
  ELSE [m |-> NatOfInt(Abs(x.n)), e |-> 0, d |-> x.d]
MagCmp(a, b) ==
  Then2(Magnitude(a), Magnitude(b), LAMBDA p, q :
    Then(IF p.e < q.e THEN p.e ELSE q.e, LAMBDA lo :
      NatCmp(NatShl(NatMul(p.m, NatOfInt(q.d)), p.e - lo),
             NatShl(NatMul(q.m, NatOfInt(p.d)), q.e - lo))))
\* a finite double written with a power of two as its denominator, and the
\* position of the leading binary digit of such a number that is not 0
Dyadic(x) == x.k = "big" \/ IsPow2(x.d)
LeadingBit(x) ==
  IF x.k = "big" THEN NatBits(x.m) + x.e
  ELSE NatBits(NatOfInt(Abs(x.n))) - Log2(x.d)
FinCmp(a, b) ==
  IF Small(a) /\ Small(b)
    THEN (IF a.n * b.d < b.n * a.d THEN -1
          ELSE IF a.n * b.d > b.n * a.d THEN 1 ELSE 0)
  ELSE IF Sgn(a) # Sgn(b) THEN (IF Sgn(a) < Sgn(b) THEN -1 ELSE 1)
  ELSE IF Sgn(a) = 0 THEN 0
  ELSE IF Dyadic(a) /\ Dyadic(b) /\ LeadingBit(a) # LeadingBit(b)
    THEN (IF LeadingBit(a) < LeadingBit(b) THEN -Sgn(a) ELSE Sgn(a))
  ELSE Sgn(a) * MagCmp(a, b)

\* a < b; false when either is NaN
FLt(x, y) ==
  Then2(x, y, LAMBDA a, b :
    /\ ~IsNaN(a)
    /\ ~IsNaN(b)
    /\ IF IsFin(a) /\ IsFin(b) THEN FinCmp(a, b) < 0
       ELSE IF a.k = "ninf" THEN b.k # "ninf"
       ELSE IF b.k = "pinf" THEN a.k # "pinf"
       ELSE FALSE)
FGt(a, b) == FLt(b, a)
\* a >= b; false when either is NaN
FGe(x, y) == Then2(x, y, LAMBDA a, b : ~IsNaN(a) /\ ~IsNaN(b) /\ ~FLt(a, b))
FLe(a, b) == FGe(b, a)

\* libc fmin, fmax: a NaN argument is treated as missing data
fmin(x, y) ==
  Then2(x, y, LAMBDA a, b : IF IsNaN(a) THEN b ELSE IF IsNaN(b) THEN a
                            ELSE IF FLt(b, a) THEN b ELSE a)
fmax(x, y) ==
  Then2(x, y, LAMBDA a, b : IF IsNaN(a) THEN b ELSE IF IsNaN(b) THEN a
                            ELSE IF FLt(a, b) THEN b ELSE a)

FNeg(x) ==
  Then(x, LAMBDA a : IF a.k = "fin" THEN Fin(-a.n, a.d)
                     ELSE IF a.k = "big" THEN [a EXCEPT !.n = -a.n]
                     ELSE IF a.k = "pinf" THEN NInf
                     ELSE IF a.k = "ninf" THEN PInf ELSE NaN)

\* a * b in IEEE-754, rounded to nearest; 0 * inf = NaN
FMul(x, y) ==
  Then2(x, y, LAMBDA a, b :
    IF IsNaN(a) \/ IsNaN(b) THEN NaN
    ELSE IF IsFin(a) /\ IsFin(b)
      THEN IF Small(a) /\ Small(b) /\ IsPow2(a.d) /\ IsPow2(b.d)
             THEN Fin(a.n * b.n, a.d * b.d)
           ELSE Then2(Parts(a), Parts(b), LAMBDA p, q :
                  Round(p.s * q.s, NatMul(p.m, q.m), p.e + q.e))
    ELSE OfSign(Sgn(a) * Sgn(b)))

\* sa * ma + sb * mb for natural numbers ma, mb: sign and magnitude
SignedSum(sa, ma0, sb, mb0) ==
  Then2(ma0, mb0, LAMBDA ma, mb :
    IF sa = sb THEN [s |-> sa, m |-> NatAdd(ma, mb)]
    ELSE IF NatCmp(ma, mb) >= 0 THEN [s |-> sa, m |-> NatSub(ma, mb)]
    ELSE [s |-> sb, m |-> NatSub(mb, ma)])

\* a + b in IEEE-754, rounded to nearest; inf + (-inf) = NaN
FAdd(x, y) ==
  Then2(x, y, LAMBDA a, b :
    IF IsNaN(a) \/ IsNaN(b) THEN NaN
    ELSE IF IsFin(a) /\ IsFin(b)
      THEN IF Small(a) /\ Small(b) /\ IsPow2(a.d) /\ IsPow2(b.d)
             THEN Fin(a.n * b.d + b.n * a.d, a.d * b.d)
           ELSE Then2(Parts(a), Parts(b), LAMBDA p, q :
                  Then(IF p.e < q.e THEN p.e ELSE q.e, LAMBDA lo :
                    Then(SignedSum(p.s, NatShl(p.m, p.e - lo),
                                   q.s, NatShl(q.m, q.e - lo)), LAMBDA r :
                      Round(r.s, r.m, lo))))
    ELSE IF IsFin(a) THEN b
    ELSE IF IsFin(b) THEN a
    ELSE IF a.k = b.k THEN a ELSE NaN)

\* a / x in IEEE-754 for a finite a and an integer x # 0, rounded to
\* nearest: the integer part of |a| * 2^K / |x| has more than MANT_DIG binary
\* digits, and one more digit after it says whether a remainder is left
FDivInt(y, x) ==
  Then(y, LAMBDA a :
    IF a.k = "fin" /\ a.n = 0 THEN a
    ELSE IF Small(a) /\ IsPow2(a.d) /\ IsPow2(Abs(x)) /\ a.d * Abs(x) <= Radix
      THEN Fin(a.n, a.d * x)
    ELSE IF a.k = "fin" /\ a.d = 1 /\ Abs(a.n) % Abs(x) = 0
      THEN FromInt((IF x < 0 THEN -Sgn(a) ELSE Sgn(a))
                   * (Abs(a.n) \div Abs(x)))
    ELSE Then2(Parts(a), NatBits(NatOfInt(Abs(x))) + MANT_DIG + 1, LAMBDA p, K :
           Then(NatDivInt(NatShl(p.m, K), Abs(x)), LAMBDA r :
             Round(IF x < 0 THEN -p.s ELSE p.s,
                   NatAdd(NatShl(r.q, 1), IF r.rem = 0 THEN << >> ELSE << 1 >>),
                   p.e - K - 1))))

\* 1.0 / x for an integer x under cdivision: 1.0 / 0.0 = +inf
FRecip(x) == IF x = 0 THEN PInf ELSE FDivInt(FromInt(1), x)

\* DETERMINANT_EPS = 1.0e-10, the double 0x1B7CDFD9D7BDBB * 2^-86
DETERMINANT_EPS ==
  [k |-> "big", n |-> 1, m |-> << 15803, 13231, 29567, 219 >>, e |-> -86]

\* x > DETERMINANT_EPS, x < DETERMINANT_EPS and x > -DETERMINANT_EPS; a
\* "fin" record has a denominator below 10^10, so it exceeds 1.0e-10 iff its
\* numerator is >= 1
GtEps(x) ==
  Then(x, LAMBDA a : IF a.k = "fin" THEN a.n >= 1 ELSE FGt(a, DETERMINANT_EPS))
LtEps(x) ==
  Then(x, LAMBDA a : IF a.k = "fin" THEN a.n <= 0 ELSE FLt(a, DETERMINANT_EPS))
GtNegEps(x) ==
  Then(x, LAMBDA a : IF a.k = "fin" THEN a.n >= 0
                     ELSE FGt(a, FNeg(DETERMINANT_EPS)))

----------------------------------------------------------------------------
(* vec3_ops on integer vectors *)

dot(x, y) ==
  Then2(x, y, LAMBDA a, b : a[1] * b[1] + a[2] * b[2] + a[3] * b[3])
subtract(x, y) ==
  Then2(x, y, LAMBDA a, b : <<a[1] - b[1], a[2] - b[2], a[3] - b[3]>>)
cross(x, y) ==
  Then2(x, y, LAMBDA a, b : <<a[2] * b[3] - a[3] * b[2],
                              a[3] * b[1] - a[1] * b[3],
                              a[1] * b[2] - a[2] * b[1]>>)

Min2(a, b) == IF a < b THEN a ELSE b
Max2(a, b) == IF a > b THEN a ELSE b

----------------------------------------------------------------------------
(* Meshes handed to the constructor *)

\* corners of one reference element with k vertices, in the vertex order the
\* triangulation tables assume (k = 5, a pyramid, is not a supported topology)
RefCell(k) ==
  IF k = 8 THEN << <<0, 0, 0>>, <<4, 0, 0>>, <<4, 4, 0>>, <<0, 4, 0>>,
                   <<0, 0, 4>>, <<4, 0, 4>>, <<4, 4, 4>>, <<0, 4, 4>> >>
  ELSE IF k = 6 THEN << <<0, 0, 0>>, <<4, 0, 0>>, <<0, 4, 0>>,
                        <<0, 0, 4>>, <<4, 0, 4>>, <<0, 4, 4>> >>
  ELSE IF k = 4 THEN << <<0, 0, 0>>, <<4, 0, 0>>, <<0, 4, 0>>, <<0, 0, 4>> >>
  ELSE << <<0, 0, 0>>, <<4, 0, 0>>, <<4, 4, 0>>, <<0, 4, 0>>, <<2, 2, 4>> >>

\* where an element of a mesh may be placed
Offsets == { <<0, 0, 0>>, <<0, 12, 0>>, <<0, 0, 8>> }

VAdd(a, b) == <<a[1] + b[1], a[2] + b[2], a[3] + b[3]>>

\* the three arrays of a mesh of Len(offs) elements with k vertices each,
\* element i being the reference element moved by offs[i + 1]: vertices
\* (V x 3), indices (E x k) and field_data (E x k)
MeshVertices(k, offs) ==
  [v \in 1..(k * Len(offs)) |->
     VAdd(RefCell(k)[((v - 1) % k) + 1], offs[((v - 1) \div k) + 1])]
\* corner j of an element of the given shape: the reference element, its
\* mirror image in the plane x = 2, an element collapsed to one point, or
\* the reference element with edges of length 7
ShapeCorner(shape, k, j) ==
  IF shape = "point" THEN <<0, 0, 0>>
  ELSE IF shape = "flip"
    THEN <<4 - RefCell(k)[j][1], RefCell(k)[j][2], RefCell(k)[j][3]>>
  ELSE IF shape = "seven"
    THEN [c \in 1..3 |-> (RefCell(k)[j][c] * 7) \div 4]
  ELSE RefCell(k)[j]
\* the vertices of a mesh whose elements all have the given shape
ShapedVertices(shape, k, offs) ==
  [v \in 1..(k * Len(offs)) |->
     VAdd(ShapeCorner(shape, k, ((v - 1) % k) + 1),
          offs[((v - 1) \div k) + 1])]
MeshIndices(k, offs) ==
  [i \in 1..Len(offs) |-> [j \in 1..k |-> (i - 1) * k + (j - 1)]]
MeshField(k, offs) ==
  [i \in 1..Len(offs) |-> [j \in 1..k |-> (i - 1) * k + (j - 1)]]

SeqsUpTo(S, n) == UNION {[1..m -> S] : m \in 0..n}

----------------------------------------------------------------------------
(* State *)

VARIABLES
  phase,        \* "new", "build", "built", "cast", "done", "freed", "crashed"
  in_vertices, in_indices, in_field,  \* the caller's mesh buffers
  in_k,         \* indices.shape[1]
  num_elem, num_verts_per_elem, num_tri_per_elem, num_tri,
  sampler,      \* "Q1", "W1", "P1" or "None"
  vertices, field_data,              \* the BVH's flattened copies
  triangles,    \* the BVH's triangle array
  tris0,        \* history: the triangle array as the constructor filled it
  splits,       \* history: per node, what _recursive_build computed for it
  nodes,        \* malloc'ed BVHNodes, in allocation order
  root,         \* index into nodes, 0 before the build has returned
  bstack,       \* activations of _recursive_build, innermost last
  error,        \* exception raised to the caller of the constructor
  in_origins,   \* test_ray_trace's origins, an (N x 3) array, as its rows
  direction,    \* the shared direction
  nthreads,     \* threads of the parallel region
  image,        \* the output array
  todo,         \* iterations of the prange not yet started
  wpc,          \* per thread: "idle", "start", "loop", "trav", "post",
                \* "write", "exit"
  ray,          \* the Ray blocks of the heap, by address
  rayp,         \* per thread: its private pointer "ray", 0 before malloc
  cur,          \* per thread: its loop index i
  tstack,       \* per thread: pending work of _recursive_intersect,
                \* next on top
  writes,       \* history: per output slot, the stores made to it
  samples,      \* history: the calls of sampler.sample_at_real_point
  visits,       \* history: per thread, the box tests and triangle tests of
                \* its current traversal, in order
  freed         \* history: the nodes passed to free(), in order; 0 stands
                \* for a pointer the builder never set

meshVars == <<in_vertices, in_indices, in_field, in_k>>
bvhVars == <<num_elem, num_verts_per_elem, num_tri_per_elem, num_tri,
             sampler, vertices, field_data, triangles, tris0, splits, nodes,
             root>>
batchVars == <<in_origins, direction, nthreads>>
castVars == <<image, todo, wpc, ray, rayp, cur, tstack, writes, samples,
              visits>>
vars == <<phase, meshVars, bvhVars, bstack, error, batchVars, castVars,
          freed>>

----------------------------------------------------------------------------
(* BVH.__cinit__ *)

\* num_tri_per_elem after the topology test: no branch is taken for an
\* unsupported vertex count, which leaves the zero the object was created with
NumTriPerElem(k) ==
  IF k = HEX_NV THEN HEX_NT
  ELSE IF k = WEDGE_NV THEN WEDGE_NT
  ELSE IF k = TETRA_NV THEN TETRA_NT
  ELSE 0

\* tri_array after the topology test (not assigned for an unsupported count)
TriArray(k) ==
  IF k = HEX_NV THEN triangulate_hex
  ELSE IF k = WEDGE_NV THEN triangulate_wedge
  ELSE IF k = TETRA_NV THEN triangulate_tetra
  ELSE << >>

\* self.sampler after the topology test (None when not assigned)
SamplerOf(k) ==
  IF k = HEX_NV THEN "Q1"
  ELSE IF k = WEDGE_NV THEN "W1"
  ELSE IF k = TETRA_NV THEN "P1"
  ELSE "None"

\* self.vertices: vertices[indices[i, j]][c] at i*k*3 + j*3 + c
FlattenVertices(verts, inds, ne, k) ==
  [p \in 1..(ne * k * 3) |->
     LET i == (p - 1) \div (k * 3)
         j == ((p - 1) % (k * 3)) \div 3
         c == (p - 1) % 3
     IN  At0(At0(verts, At0(At0(inds, i), j)), c)]

\* self.field_data: field_data[i][j] at i*k + j
FlattenField(fd, ne, k) ==
  [p \in 1..(ne * k) |-> At0(At0(fd, (p - 1) \div k), (p - 1) % k)]

\* the triangle of element i with a one-based elem_id
MakeTriangleOneBased(verts, inds, i, tv) ==
  LET p0 == At0(verts, At0(At0(inds, i), tv[1]))
      p1 == At0(verts, At0(At0(inds, i), tv[2]))
      p2 == At0(verts, At0(At0(inds, i), tv[3]))
  IN  [elem_id |-> i + 1, p0 |-> p0, p1 |-> p1, p2 |-> p2,
       centroid |-> [c \in 1..3 |-> FDivInt(FromInt(p0[c] + p1[c] + p2[c]), 3)],
       bbox |-> [left_edge |->
                   [c \in 1..3 |-> Min2(Min2(p0[c], p1[c]), p2[c])],
                 right_edge |->
                   [c \in 1..3 |-> Max2(Max2(p0[c], p1[c]), p2[c])]]]

\* the triangle of element i with local vertex triple tv
MakeTriangle(verts, inds, i, tv) ==
  LET p0 == At0(verts, At0(At0(inds, i), tv[1]))
      p1 == At0(verts, At0(At0(inds, i), tv[2]))
      p2 == At0(verts, At0(At0(inds, i), tv[3]))
  IN  [elem_id |-> i, p0 |-> p0, p1 |-> p1, p2 |-> p2,
       centroid |-> [c \in 1..3 |-> FDivInt(FromInt(p0[c] + p1[c] + p2[c]), 3)],
       bbox |-> [left_edge |->
                   [c \in 1..3 |-> Min2(Min2(p0[c], p1[c]), p2[c])],
                 right_edge |->
                   [c \in 1..3 |-> Max2(Max2(p0[c], p1[c]), p2[c])]]]

\* self.triangles: triangle j of element i at num_tri_per_elem*i + j
FillTriangles(verts, inds, ne, nt, tri_array) ==
  [t \in 1..(ne * nt) |->
     MakeTriangle(verts, inds, (t - 1) \div nt, At0(tri_array, (t - 1) % nt))]

\* an activation of _recursive_build(begin, end)
Frame(b, e) == [begin |-> b, end |-> e, mid |-> 0, node |-> 0, pc |-> "enter"]

\* the constructor up to its call of _recursive_build(0, num_tri)
CInit ==
  /\ phase = "new"
  /\ LET ne == Len(in_indices)
         k == in_k
         nt == NumTriPerElem(k)
         tris == FillTriangles(in_vertices, in_indices, ne, nt, TriArray(k))
     IN  /\ num_elem' = ne
         /\ num_verts_per_elem' = k
         /\ num_tri_per_elem' = nt
         /\ sampler' = SamplerOf(k)
         /\ num_tri' = nt * ne
         /\ vertices' = FlattenVertices(in_vertices, in_indices, ne, k)
         /\ field_data' = FlattenField(in_field, ne, k)
         /\ triangles' = tris
         /\ tris0' = tris
         /\ bstack' = << Frame(0, nt * ne) >>
  /\ phase' = "build"
  /\ UNCHANGED <<meshVars, splits, nodes, root, error, batchVars, castVars,
                 freed>>

----------------------------------------------------------------------------
(* The builder *)

\* the exchange without the temporary: triangles[mid] = triangles[begin]
SwapClobber(s, i, j) == [s EXCEPT ![i + 1] = s[j + 1]]

\* the exchange of triangles[i] and triangles[j] through a temporary
Swap(s, i, j) == [s EXCEPT ![i + 1] = s[j + 1], ![j + 1] = s[i + 1]]

\* one pass through the body of the loop of _partition, at index begin
PartitionStep(tris, mid, begin, ax, split) ==
  IF FGt(At0(At0(tris, mid).centroid, ax), split)
    THEN [triangles |-> tris, mid |-> mid + 1]
  ELSE IF FGt(At0(At0(tris, begin).centroid, ax), split)
    THEN [triangles |-> Swap(tris, mid, begin), mid |-> mid + 1]
  ELSE [triangles |-> tris, mid |-> mid]

\* the loop of _partition, from the state (mid, begin) on: the passes for
\* begin, begin + 1, ..., end - 1 in this order (the passes of the first half
\* of the range, then those of the second half)
RECURSIVE PartitionLoop(_, _, _, _, _, _)
PartitionLoop(tris, mid, begin, end, ax, split) ==
  IF begin = end THEN [triangles |-> tris, mid |-> mid]
  ELSE IF end - begin = 1 THEN PartitionStep(tris, mid, begin, ax, split)
  ELSE LET half == begin + (end - begin) \div 2
       IN  Then(PartitionLoop(tris, mid, begin, half, ax, split),
                LAMBDA first : PartitionLoop(first.triangles, first.mid,
                                             half, end, ax, split))

\* _partition with its loop running to the end of the array instead of to
\* the end of the range
PartitionToArrayEnd(tris, begin, end, ax, split) ==
  PartitionLoop(tris, begin, begin, Len(tris), ax, split)

\* _partition with mid counted from 0 instead of from begin
PartitionFromZero(tris, begin, end, ax, split) ==
  PartitionLoop(tris, 0, begin, end, ax, split)

\* _partition: the reordered array and the returned mid
_partition(tris, begin, end, ax, split) ==
  PartitionLoop(tris, begin, begin, end, ax, split)

\* one pass through the body of the loop of _get_node_bbox
BBoxStep(box, tri) ==
  [left_edge |-> <<Min2(box.left_edge[1], tri.bbox.left_edge[1]),
                   Min2(box.left_edge[2], tri.bbox.left_edge[2]),
                   Min2(box.left_edge[3], tri.bbox.left_edge[3])>>,
   right_edge |-> <<Max2(box.right_edge[1], tri.bbox.right_edge[1]),
                    Max2(box.right_edge[2], tri.bbox.right_edge[2]),
                    Max2(box.right_edge[3], tri.bbox.right_edge[3])>>]

\* the loop of _get_node_bbox, from index i on: the passes for i, i + 1,
\* ..., end - 1 in this order
RECURSIVE BBoxLoop(_, _, _, _)
BBoxLoop(tris, box, i, end) ==
  IF i >= end THEN box
  ELSE IF end - i = 1 THEN BBoxStep(box, At0(tris, i))
  ELSE LET half == i + (end - i) \div 2
       IN  Then(BBoxLoop(tris, box, i, half),
                LAMBDA first : BBoxLoop(tris, first, half, end))

\* _get_node_bbox without its loop: the box of the first triangle
FirstTriangleBox(tris, begin, end) == At0(tris, begin).bbox

\* _get_node_bbox starting from a zeroed box instead of the box of the first
\* triangle
ZeroInitBox(tris, begin, end) ==
  BBoxLoop(tris, [left_edge |-> <<0, 0, 0>>, right_edge |-> <<0, 0, 0>>],
           begin, end)

\* _get_node_bbox for a range whose first triangle exists
_get_node_bbox(tris, begin, end) ==
  BBoxLoop(tris, At0(tris, begin).bbox, begin + 1, end)

\* the box a read of triangles[begin].bbox past the end of the array
\* yields when it does not fault: six doubles the program never wrote, each
\* of which may be any double (zero, a denormal, a NaN, ...), left_edge
\* above right_edge included.  No coordinate of it has a determined value,
\* so it has none in the model.
IndeterminateBox == [left_edge |-> << >>, right_edge |-> << >>]
IsIndeterminate(box) == box = IndeterminateBox

\* the boxes _get_node_bbox may store in the node
NodeBBoxOutcomes(tris, begin, end) ==
  IF begin < Len(tris) THEN {_get_node_bbox(tris, begin, end)}
  ELSE {IndeterminateBox}

\* the leaf test of the builder with < in place of <=
BuildIsLeafStrict(begin, end) == (end - begin) < LEAF_SIZE

\* "check for leaf" of _recursive_build
BuildIsLeaf(begin, end) == (end - begin) <= LEAF_SIZE

\* "compute longest dimension" of _recursive_build
SplitAxis(box) ==
  LET d == Abs(box.right_edge[1] - box.left_edge[1])
      ax1 == IF Abs(box.right_edge[2] - box.left_edge[2]) > d THEN 1 ELSE 0
  IN  IF Abs(box.right_edge[3] - box.left_edge[3]) > d THEN 2 ELSE ax1

\* "split in half along that dimension"
SplitValue(box, ax) ==
  FMul(Fin(1, 2), FromInt(At0(box.right_edge, ax) + At0(box.left_edge, ax)))

\* the builder without the recovery: the mid _partition returned
FixMidNone(mid, begin, end) == mid

\* the recovery that applies to an empty left side only
FixMidLeftOnly(mid, begin, end) ==
  IF mid = begin THEN begin + ((end - begin) \div 2) ELSE mid

\* the mid used for the children
FixMid(mid, begin, end) ==
  IF mid = begin \/ mid = end THEN begin + ((end - begin) \div 2) ELSE mid

Top(st) == st[Len(st)]
SetTop(st, f) == [st EXCEPT ![Len(st)] = f]
Pop(st) == SubSeq(st, 1, Len(st) - 1)

\* the entry of splits for a leaf: no axis, no partition
NoSplit ==
  [ax |-> -1, split |-> FromInt(0), pmid |-> -1, mid |-> -1, moved |-> FALSE]

\* _recursive_build from its entry to its first recursive call, or to its
\* return for a leaf
RecursiveBuildEnter ==
  /\ phase = "build"
  /\ bstack # << >>
  /\ Top(bstack).pc = "enter"
  /\ LET f == Top(bstack)
         id == Len(nodes) + 1
     IN  \E box \in NodeBBoxOutcomes(triangles, f.begin, f.end) :
         \E ax \in {IF BuildIsLeaf(f.begin, f.end) THEN -1
                     ELSE SplitAxis(box)} :
         \E part \in {IF BuildIsLeaf(f.begin, f.end)
                      THEN [triangles |-> triangles, mid |-> f.begin]
                      ELSE _partition(triangles, f.begin, f.end, ax,
                                      SplitValue(box, ax))} :
           LET node == [begin |-> f.begin, end |-> f.end, bbox |-> box,
                        left |-> 0, right |-> 0]
               mid == FixMid(part.mid, f.begin, f.end)
           IN  /\ nodes' = Append(nodes, node)
               /\ splits' = Append(splits,
                    IF BuildIsLeaf(f.begin, f.end) THEN NoSplit
                    ELSE [ax |-> ax, split |-> SplitValue(box, ax),
                          pmid |-> part.mid, mid |-> mid,
                          moved |-> part.triangles # triangles])
               /\ IF BuildIsLeaf(f.begin, f.end)
                  THEN /\ triangles' = triangles
                       /\ bstack' = SetTop(bstack,
                            [f EXCEPT !.node = id, !.pc = "ret"])
                  ELSE /\ triangles' = part.triangles
                       /\ bstack' = Append(
                            SetTop(bstack, [f EXCEPT !.node = id,
                                              !.mid = mid, !.pc = "left"]),
                            Frame(f.begin, mid))
  /\ UNCHANGED <<phase, meshVars, num_elem, num_verts_per_elem,
                 num_tri_per_elem, num_tri, sampler, vertices, field_data,
                 tris0, root, error, batchVars, castVars,
                 freed>>

\* the read of triangles[begin] past the end of the array faults
RecursiveBuildFault ==
  /\ phase = "build"
  /\ bstack # << >>
  /\ Top(bstack).pc = "enter"
  /\ Top(bstack).begin >= Len(triangles)
  /\ phase' = "crashed"
  /\ UNCHANGED <<meshVars, bvhVars, bstack, error, batchVars, castVars,
                 freed>>

\* return of _recursive_build: the caller stores the node and goes on, the
\* constructor stores the root and returns
RecursiveBuildReturn ==
  /\ phase = "build"
  /\ bstack # << >>
  /\ Top(bstack).pc = "ret"
  /\ LET f == Top(bstack)
         rest == Pop(bstack)
     IN  IF rest = << >>
         THEN /\ root' = f.node
              /\ phase' = "built"
              /\ bstack' = rest
              /\ nodes' = nodes
         ELSE LET c == Top(rest)
              IN  /\ root' = root
                  /\ phase' = phase
                  /\ IF c.pc = "left"
                     THEN /\ nodes' = [nodes EXCEPT ![c.node].left = f.node]
                          /\ bstack' = Append(
                               SetTop(rest, [c EXCEPT !.pc = "right"]),
                               Frame(c.mid, c.end))
                     ELSE /\ nodes' = [nodes EXCEPT ![c.node].right = f.node]
                          /\ bstack' = SetTop(rest, [c EXCEPT !.pc = "ret"])
  /\ UNCHANGED <<meshVars, num_elem, num_verts_per_elem, num_tri_per_elem,
                 num_tri, sampler, vertices, field_data, triangles, tris0,
                 splits, error, batchVars, castVars,
                 freed>>

----------------------------------------------------------------------------
(* Intersection kernels *)

F0 == FromInt(0)
F1 == FromInt(1)

\* ray_triangle_intersect without the test "t < ray.t_far"
TriangleNoFarTest(r, tri) ==
  LET e1 == subtract(tri.p1, tri.p0)
      e2 == subtract(tri.p2, tri.p0)
      P == cross(r.direction, e2)
      det == dot(e1, P)
      inv_det == FRecip(det)
      T == subtract(r.origin, tri.p0)
      u == FMul(FromInt(dot(T, P)), inv_det)
      Q == cross(T, e1)
      v == FMul(FromInt(dot(r.direction, Q)), inv_det)
      t == FMul(FromInt(dot(e2, Q)), inv_det)
      miss == [hit |-> FALSE, ray |-> r]
  IN  IF GtNegEps(FromInt(det)) /\ LtEps(FromInt(det)) THEN miss
      ELSE IF FLt(u, F0) \/ FGt(u, F1) THEN miss
      ELSE IF FLt(v, F0) \/ FGt(FAdd(u, v), F1) THEN miss
      ELSE IF GtEps(t)
        THEN [hit |-> TRUE,
              ray |-> [r EXCEPT !.t_far = t, !.elem_id = tri.elem_id]]
      ELSE miss

\* ray_triangle_intersect with "t <= ray.t_far" as its last test
TriangleAcceptAtFar(r, tri) ==
  LET e1 == subtract(tri.p1, tri.p0)
      e2 == subtract(tri.p2, tri.p0)
      P == cross(r.direction, e2)
      det == dot(e1, P)
      inv_det == FRecip(det)
      T == subtract(r.origin, tri.p0)
      u == FMul(FromInt(dot(T, P)), inv_det)
      Q == cross(T, e1)
      v == FMul(FromInt(dot(r.direction, Q)), inv_det)
      t == FMul(FromInt(dot(e2, Q)), inv_det)
      miss == [hit |-> FALSE, ray |-> r]
  IN  IF GtNegEps(FromInt(det)) /\ LtEps(FromInt(det)) THEN miss
      ELSE IF FLt(u, F0) \/ FGt(u, F1) THEN miss
      ELSE IF FLt(v, F0) \/ FGt(FAdd(u, v), F1) THEN miss
      ELSE IF GtEps(t) /\ FLe(t, r.t_far)
        THEN [hit |-> TRUE,
              ray |-> [r EXCEPT !.t_far = t, !.elem_id = tri.elem_id]]
      ELSE miss

\* ray_triangle_intersect: whether the triangle was accepted, and the ray
\* as the call leaves it
ray_triangle_intersect(r, tri) ==
  LET e1 == subtract(tri.p1, tri.p0)
      e2 == subtract(tri.p2, tri.p0)
      P == cross(r.direction, e2)
      det == dot(e1, P)
      inv_det == FRecip(det)
      T == subtract(r.origin, tri.p0)
      u == FMul(FromInt(dot(T, P)), inv_det)
      Q == cross(T, e1)
      v == FMul(FromInt(dot(r.direction, Q)), inv_det)
      t == FMul(FromInt(dot(e2, Q)), inv_det)
      miss == [hit |-> FALSE, ray |-> r]
  IN  IF GtNegEps(FromInt(det)) /\ LtEps(FromInt(det)) THEN miss
      ELSE IF FLt(u, F0) \/ FGt(u, F1) THEN miss
      ELSE IF FLt(v, F0) \/ FGt(FAdd(u, v), F1) THEN miss
      ELSE IF GtEps(t) /\ FLt(t, r.t_far)
        THEN [hit |-> TRUE,
              ray |-> [r EXCEPT !.t_far = t, !.elem_id = tri.elem_id]]
      ELSE miss

\* the loop of ray_bbox_intersect, from axis i on
RECURSIVE SlabLoop(_, _, _, _, _)
SlabLoop(r, bbox, i, tmin, tmax) ==
  IF i = 3 THEN [tmin |-> tmin, tmax |-> tmax]
  ELSE LET t1 == FMul(FromInt(At0(bbox.left_edge, i) - At0(r.origin, i)),
                      At0(r.inv_dir, i))
           t2 == FMul(FromInt(At0(bbox.right_edge, i) - At0(r.origin, i)),
                      At0(r.inv_dir, i))
       IN  SlabLoop(r, bbox, i + 1,
                    fmax(tmin, fmin(t1, t2)), fmin(tmax, fmax(t1, t2)))

\* ray_bbox_intersect
ray_bbox_intersect(r, bbox) ==
  LET s == SlabLoop(r, bbox, 0, FNeg(INF), INF)
  IN  FGe(s.tmax, fmax(s.tmin, F0))

----------------------------------------------------------------------------
(* The element sampler (element_mappings, an external collaborator): its    *)
(* result is left uninterpreted, a value that records the arguments of the  *)
(* call.                                                                    *)

sample_at_real_point(vertex_ptr, field_ptr, position) ==
  [k |-> "sample", vertex_ptr |-> vertex_ptr, field_ptr |-> field_ptr,
   position |-> position]

----------------------------------------------------------------------------
(* cast_rays and BVH.intersect *)

Workers == 1..nthreads
\* N = origins.shape[0]
NRays == Len(in_origins)
\* &origins[0, 0] of a C-contiguous (N x 3) array: element (i, j) at 3*i + j
FlatOrigins(o) == [p \in 1..(3 * Len(o)) |-> At0(At0(o, (p - 1) \div 3), (p - 1) % 3)]

\* the block malloc(sizeof(Ray)) returns: whatever bytes the heap holds (a
\* fill pattern, the Ray of an earlier call, ...).  A Ray of the model has
\* the fields the program has stored since the malloc; a field it has not
\* stored has no determined value and is absent.
MallocRay == << >>

\* test_ray_trace calls cast_rays, which opens the parallel region
CastRays ==
  /\ phase = "built"
  /\ phase' = "cast"
  /\ todo' = 0..(NRays - 1)
  /\ wpc' = [w \in Workers |-> "start"]
  /\ UNCHANGED <<meshVars, bvhVars, bstack, error, batchVars, image, ray,
                 cur, tstack, writes, samples,
                 freed, rayp, visits>>

\* the addresses malloc may return for a Ray, and those of the blocks that
\* are allocated at the moment: a thread holds its block from its malloc to
\* its free
RayAddrs == 1..nthreads
HoldsRay(w) == wpc[w] \in {"loop", "trav", "write"}
HeldRays == {rayp[v] : v \in {u \in Workers : HoldsRay(u)}}

\* the Ray thread w's pointer refers to
RayOf(w) == ray[rayp[w]]

\* the set-up of a thread whose "ray" is one block allocated once for all
\* threads
RayAllocShared(w) ==
  /\ phase = "cast"
  /\ wpc[w] = "start"
  /\ rayp' = [rayp EXCEPT ![w] = 1]
  /\ ray' = [ray EXCEPT ![1] =
               [direction |-> direction,
                inv_dir |-> [c \in 1..3 |-> FRecip(direction[c])]]
               @@ (IF 1 \in HeldRays THEN ray[1] ELSE MallocRay)]
  /\ wpc' = [wpc EXCEPT ![w] = "loop"]
  /\ UNCHANGED <<phase, meshVars, bvhVars, bstack, error, batchVars, image,
                 todo, cur, tstack, writes, samples, freed, visits>>

\* ray = malloc(sizeof(Ray)) into the thread's private pointer; then
\* ray.direction and ray.inv_dir are set
RayAlloc(w) ==
  /\ phase = "cast"
  /\ wpc[w] = "start"
  /\ \E a \in RayAddrs \ HeldRays :
       /\ rayp' = [rayp EXCEPT ![w] = a]
       /\ ray' = [ray EXCEPT ![a] =
                    [direction |-> direction,
                     inv_dir |-> [c \in 1..3 |-> FRecip(direction[c])]]
                    @@ MallocRay]
  /\ wpc' = [wpc EXCEPT ![w] = "loop"]
  /\ UNCHANGED <<phase, meshVars, bvhVars, bstack, error, batchVars, image,
                 todo, cur, tstack, writes, samples, freed, visits>>

\* the origin cast_rays loads for iteration i: origins[N*j + i]
LoadedOrigin(origins, n, i) == [c \in 1..3 |-> At0(origins, n * (c - 1) + i)]

\* the reset without "ray.data_val = 0": data_val keeps what the block
\* holds, NaN standing for the content of a block not yet written
ResetRayKeepVal(r, origin) ==
  [origin |-> origin, t_far |-> INF, t_near |-> F0, elem_id |-> -1]
  @@ r @@ [data_val |-> NaN]

\* the reset without "ray.t_far = INF" and "ray.elem_id = -1": both keep
\* what the block holds, zeros standing for the content of a block not yet
\* written
ResetRayKeepHit(r, origin) ==
  [origin |-> origin, t_near |-> F0, data_val |-> F0]
  @@ r @@ [t_far |-> F0, elem_id |-> 0]

\* the body of the prange up to the call of bvh.intersect: the five stores
\* into the thread's Ray, whose other fields stay as they are
ResetRay(r, origin) ==
  [origin |-> origin, t_far |-> INF, t_near |-> F0, data_val |-> F0,
   elem_id |-> -1] @@ r

\* a pending call _recursive_intersect(ray, node)
Visit(n) == [node |-> n, i |-> 0, pc |-> "enter"]

\* a thread takes iteration i of the prange and calls bvh.intersect, which
\* calls _recursive_intersect(ray, self.root)
LoadRay(w) ==
  /\ phase = "cast"
  /\ wpc[w] = "loop"
  /\ \E i \in todo :
       /\ todo' = todo \ {i}
       /\ cur' = [cur EXCEPT ![w] = i]
       /\ ray' = [ray EXCEPT ![rayp[w]] =
            ResetRay(RayOf(w), LoadedOrigin(FlatOrigins(in_origins), NRays, i))]
  /\ tstack' = [tstack EXCEPT ![w] = << Visit(root) >>]
  /\ wpc' = [wpc EXCEPT ![w] = "trav"]
  /\ visits' = [visits EXCEPT ![w] = << >>]
  /\ UNCHANGED <<phase, meshVars, bvhVars, bstack, error, batchVars, image,
                 writes, samples,
                 freed, rayp>>

\* "check for leaf" of _recursive_intersect
IntersectIsLeaf(node) == (node.end - node.begin) <= LEAF_SIZE

\* the results the box test of _recursive_intersect may have: that of
\* ray_bbox_intersect, or either one on a box of undetermined coordinates
BBoxTestOutcomes(r, bbox) ==
  IF IsIndeterminate(bbox) THEN BOOLEAN ELSE {ray_bbox_intersect(r, bbox)}

\* _recursive_intersect with the two recursive calls exchanged: right first
NodeVisitRightFirst(w) ==
  /\ phase = "cast"
  /\ wpc[w] = "trav"
  /\ tstack[w] # << >>
  /\ Top(tstack[w]).pc = "enter"
  /\ LET f == Top(tstack[w])
         node == nodes[f.node]
         rest == Pop(tstack[w])
     IN  \E hit \in BBoxTestOutcomes(RayOf(w), node.bbox) :
           /\ tstack' = [tstack EXCEPT ![w] =
                IF ~hit THEN rest
                ELSE IF IntersectIsLeaf(node)
                  THEN IF node.begin < node.end
                       THEN Append(rest, [node |-> f.node, i |-> node.begin,
                                          pc |-> "scan"])
                       ELSE rest
                ELSE Append(Append(rest, Visit(node.left)), Visit(node.right))]
           /\ visits' = [visits EXCEPT ![w] =
                Append(@, [k |-> "box", n |-> f.node, hit |-> hit])]
  /\ UNCHANGED <<phase, meshVars, bvhVars, bstack, error, batchVars, image,
                 todo, wpc, ray, cur, writes, samples,
                 freed, rayp>>

\* _recursive_intersect on entry to a node: the box test, then the first
\* triangle of a leaf or the two recursive calls, left first
NodeVisit(w) ==
  /\ phase = "cast"
  /\ wpc[w] = "trav"
  /\ tstack[w] # << >>
  /\ Top(tstack[w]).pc = "enter"
  /\ LET f == Top(tstack[w])
         node == nodes[f.node]
         rest == Pop(tstack[w])
     IN  \E hit \in BBoxTestOutcomes(RayOf(w), node.bbox) :
           /\ tstack' = [tstack EXCEPT ![w] =
                IF ~hit THEN rest
                ELSE IF IntersectIsLeaf(node)
                  THEN IF node.begin < node.end
                       THEN Append(rest, [node |-> f.node, i |-> node.begin,
                                          pc |-> "scan"])
                       ELSE rest
                ELSE Append(Append(rest, Visit(node.right)), Visit(node.left))]
           /\ visits' = [visits EXCEPT ![w] =
                Append(@, [k |-> "box", n |-> f.node, hit |-> hit])]
  /\ UNCHANGED <<phase, meshVars, bvhVars, bstack, error, batchVars, image,
                 todo, wpc, ray, cur, writes, samples,
                 freed, rayp>>

\* the leaf loop moving an accepted triangle to the front of its leaf
TriTestMoveToFront(w) ==
  /\ phase = "cast"
  /\ wpc[w] = "trav"
  /\ tstack[w] # << >>
  /\ Top(tstack[w]).pc = "scan"
  /\ LET f == Top(tstack[w])
         node == nodes[f.node]
         res == ray_triangle_intersect(RayOf(w), At0(triangles, f.i))
     IN  /\ ray' = [ray EXCEPT ![rayp[w]] = res.ray]
         /\ triangles' = IF res.hit THEN Swap(triangles, node.begin, f.i)
                         ELSE triangles
         /\ tstack' = [tstack EXCEPT ![w] =
              IF f.i + 1 < node.end
              THEN SetTop(tstack[w], [f EXCEPT !.i = f.i + 1])
              ELSE Pop(tstack[w])]
  /\ visits' = [visits EXCEPT ![w] =
       Append(@, [k |-> "tri", i |-> Top(tstack[w]).i])]
  /\ UNCHANGED <<phase, meshVars, num_elem, num_verts_per_elem,
                 num_tri_per_elem, num_tri, sampler, vertices, field_data,
                 tris0, splits, nodes, root, bstack, error, batchVars, image,
                 todo, wpc, cur, writes, samples, freed, rayp>>

\* the leaf loop left at the first triangle whose determinant is 0
TriTestStopAtDegenerate(w) ==
  /\ phase = "cast"
  /\ wpc[w] = "trav"
  /\ tstack[w] # << >>
  /\ Top(tstack[w]).pc = "scan"
  /\ LET f == Top(tstack[w])
         node == nodes[f.node]
         tri == At0(triangles, f.i)
         res == ray_triangle_intersect(RayOf(w), tri)
         det == dot(subtract(tri.p1, tri.p0),
                    cross(RayOf(w).direction, subtract(tri.p2, tri.p0)))
     IN  /\ ray' = [ray EXCEPT ![rayp[w]] = res.ray]
         /\ tstack' = [tstack EXCEPT ![w] =
              IF det # 0 /\ f.i + 1 < node.end
              THEN SetTop(tstack[w], [f EXCEPT !.i = f.i + 1])
              ELSE Pop(tstack[w])]
  /\ visits' = [visits EXCEPT ![w] =
       Append(@, [k |-> "tri", i |-> Top(tstack[w]).i])]
  /\ UNCHANGED <<phase, meshVars, bvhVars, bstack, error, batchVars, image,
                 todo, wpc, cur, writes, samples,
                 freed, rayp>>

\* one iteration of the leaf loop of _recursive_intersect
TriTest(w) ==
  /\ phase = "cast"
  /\ wpc[w] = "trav"
  /\ tstack[w] # << >>
  /\ Top(tstack[w]).pc = "scan"
  /\ LET f == Top(tstack[w])
         node == nodes[f.node]
     IN  /\ ray' = [ray EXCEPT ![rayp[w]] =
              ray_triangle_intersect(RayOf(w), At0(triangles, f.i)).ray]
         /\ tstack' = [tstack EXCEPT ![w] =
              IF f.i + 1 < node.end
              THEN SetTop(tstack[w], [f EXCEPT !.i = f.i + 1])
              ELSE Pop(tstack[w])]
  /\ visits' = [visits EXCEPT ![w] =
       Append(@, [k |-> "tri", i |-> Top(tstack[w]).i])]
  /\ UNCHANGED <<phase, meshVars, bvhVars, bstack, error, batchVars, image,
                 todo, wpc, cur, writes, samples,
                 freed, rayp>>

\* position[i] = ray.origin[i] + ray.t_far*ray.direction[i]
HitPosition(r) ==
  [c \in 1..3 |->
     FAdd(FromInt(r.origin[c]), FMul(r.t_far, FromInt(r.direction[c])))]

\* BVH.intersect without "if ray.elem_id < 0: return"
IntersectTailNoGuard(r, k) ==
  LET vertex_ptr == r.elem_id * k * 3
      field_ptr == r.elem_id * k
      position == HitPosition(r)
  IN  [ray |-> [data_val |-> sample_at_real_point(vertex_ptr, field_ptr,
                                                  position),
                near_boundary |-> -1] @@ r,
       calls |-> << [vertex_ptr |-> vertex_ptr, field_ptr |-> field_ptr,
                     position |-> position] >>]

\* BVH.intersect after _recursive_intersect has returned: the ray as
\* intersect leaves it, and the sampler calls made
IntersectTail(r, k) ==
  IF r.elem_id < 0 THEN [ray |-> r, calls |-> << >>]
  ELSE LET vertex_ptr == r.elem_id * k * 3
           field_ptr == r.elem_id * k
           position == HitPosition(r)
       IN  [ray |-> [data_val |-> sample_at_real_point(vertex_ptr,
                                                       field_ptr, position),
                     near_boundary |-> -1] @@ r,
            calls |-> << [vertex_ptr |-> vertex_ptr, field_ptr |-> field_ptr,
                          position |-> position] >>]

IntersectFinish(w) ==
  /\ phase = "cast"
  /\ wpc[w] = "trav"
  /\ tstack[w] = << >>
  /\ LET r == IntersectTail(RayOf(w), num_verts_per_elem)
     IN  /\ ray' = [ray EXCEPT ![rayp[w]] = r.ray]
         /\ samples' = samples \o
              [c \in 1..Len(r.calls) |->
                 [w |-> w, i |-> cur[w], before |-> RayOf(w), call |-> r.calls[c]]]
  /\ wpc' = [wpc EXCEPT ![w] = "write"]
  /\ UNCHANGED <<phase, meshVars, bvhVars, bstack, error, batchVars, image,
                 todo, cur, tstack, writes,
                 freed, rayp, visits>>

\* the store into the slots in reverse order: image[N - 1 - i]
WriteImageReversed(w) ==
  /\ phase = "cast"
  /\ wpc[w] = "write"
  /\ image' = [image EXCEPT ![NRays - cur[w]] = RayOf(w).data_val]
  /\ writes' = [writes EXCEPT ![NRays - cur[w]] =
                  Append(@, [w |-> w, i |-> cur[w], val |-> RayOf(w).data_val,
                             elem_id |-> RayOf(w).elem_id])]
  /\ wpc' = [wpc EXCEPT ![w] = "loop"]
  /\ UNCHANGED <<phase, meshVars, bvhVars, bstack, error, batchVars, todo,
                 ray, cur, tstack, samples, freed, rayp, visits>>

\* image[i] = ray.data_val
WriteImage(w) ==
  /\ phase = "cast"
  /\ wpc[w] = "write"
  /\ image' = [image EXCEPT ![cur[w] + 1] = RayOf(w).data_val]
  /\ writes' = [writes EXCEPT ![cur[w] + 1] =
                  Append(@, [w |-> w, i |-> cur[w], val |-> RayOf(w).data_val,
                             elem_id |-> RayOf(w).elem_id])]
  /\ wpc' = [wpc EXCEPT ![w] = "loop"]
  /\ UNCHANGED <<phase, meshVars, bvhVars, bstack, error, batchVars, todo,
                 ray, cur, tstack, samples,
                 freed, rayp, visits>>

\* a thread has arrived at the end of the prange, or gone past it
AtBarrier(v) == wpc[v] \in {"loop", "exit"}

\* a thread that frees its Ray only when all other threads have left
RayFreeAfterOthers(w) ==
  /\ phase = "cast"
  /\ wpc[w] = "loop"
  /\ todo = {}
  /\ \A v \in Workers : AtBarrier(v)
  /\ \A v \in Workers \ {w} : wpc[v] = "exit"
  /\ wpc' = [wpc EXCEPT ![w] = "exit"]
  /\ UNCHANGED <<phase, meshVars, bvhVars, bstack, error, batchVars, image,
                 todo, ray, cur, tstack, writes, samples,
                 freed, rayp, visits>>

\* the prange has no iteration left, and every thread of the team has
\* arrived at the barrier that ends it: free(ray)
RayFree(w) ==
  /\ phase = "cast"
  /\ wpc[w] = "loop"
  /\ todo = {}
  /\ \A v \in Workers : AtBarrier(v)
  /\ wpc' = [wpc EXCEPT ![w] = "exit"]
  /\ UNCHANGED <<phase, meshVars, bvhVars, bstack, error, batchVars, image,
                 todo, ray, cur, tstack, writes, samples,
                 freed, rayp, visits>>

\* the parallel region ends when every thread has left it
CastReturn ==
  /\ phase = "cast"
  /\ \A w \in Workers : wpc[w] = "exit"
  /\ phase' = "done"
  /\ UNCHANGED <<meshVars, bvhVars, bstack, error, batchVars, castVars,
                 freed>>

\* "node.end - node.begin > LEAF_SIZE" of _recursive_free
FreeIsInternal(node) == (node.end - node.begin) > LEAF_SIZE

\* _recursive_free: the nodes freed, in order
RECURSIVE _recursive_free(_, _)
_recursive_free(ns, n) ==
  IF n = 0 THEN << 0 >>
  ELSE IF FreeIsInternal(ns[n])
    THEN _recursive_free(ns, ns[n].left) \o _recursive_free(ns, ns[n].right)
         \o << n >>
  ELSE << n >>

\* BVH.__dealloc__
Dealloc ==
  /\ phase \in {"built", "done"}
  /\ freed' = _recursive_free(nodes, root)
  /\ phase' = "freed"
  /\ UNCHANGED <<meshVars, bvhVars, bstack, error, batchVars, castVars>>

----------------------------------------------------------------------------
(* The traversal of one ray as a function of the ray and the tree *)

\* the leaf loop of _recursive_intersect from index i on: the calls of
\* ray_triangle_intersect for i, i + 1, ..., end - 1 in this order
RECURSIVE LeafLoop(_, _, _, _)
LeafLoop(tris, r, i, end) ==
  IF i >= end THEN r
  ELSE IF end - i = 1 THEN ray_triangle_intersect(r, At0(tris, i)).ray
  ELSE LET half == i + (end - i) \div 2
       IN  Then(LeafLoop(tris, r, i, half),
                LAMBDA first : LeafLoop(tris, first, half, end))

\* _recursive_intersect: the ray as the call leaves it
RECURSIVE _recursive_intersect(_, _, _, _)
_recursive_intersect(ns, tris, r, n) ==
  IF IsIndeterminate(ns[n].bbox)
    \* the node over the empty range: a leaf without a triangle to test,
    \* whatever its box test says
    THEN r
  ELSE IF ~ray_bbox_intersect(r, ns[n].bbox) THEN r
  ELSE IF IntersectIsLeaf(ns[n])
    THEN LeafLoop(tris, r, ns[n].begin, ns[n].end)
  ELSE _recursive_intersect(ns, tris,
         _recursive_intersect(ns, tris, r, ns[n].left), ns[n].right)

\* BVH.intersect: the ray as the call leaves it
intersect(ns, tris, rt, k, r) ==
  IntersectTail(_recursive_intersect(ns, tris, r, rt), k).ray

----------------------------------------------------------------------------
(* Inputs and the specification *)

\* vertex counts per element handed to the constructor; 5 is unsupported
Topologies == {TETRA_NV, 5, WEDGE_NV, HEX_NV}

\* meshes that are only built
BuildMeshes ==
  {[k |-> k, shape |-> "ref", offs |-> o] :
     k \in Topologies, o \in SeqsUpTo(Offsets, MaxElem)}

\* meshes of MaxElem tetrahedra whose triangle centroids all lie on one side
\* of the middle of the root box (mirrored tetrahedra) or all coincide
\* (collapsed tetrahedra at one point)
ClusterOffsets == { <<0, 0, 0>>, <<0, 12, 0>> }
ClusterMeshes ==
  {[k |-> TETRA_NV, shape |-> sh, offs |-> o] :
     sh \in {"flip", "point"}, o \in [1..MaxElem -> ClusterOffsets]}

\* the lower corner of element i of a chain: x = 0, 8, 16, 32, 64, ...
ChainOffset(i) == <<IF i = 1 THEN 0 ELSE 2 ^ (i + 1), 0, 0>>

\* a mesh of MaxChain disjoint tetrahedra along the x axis, each twice as
\* far from the first as the one before it
ChainMeshes ==
  {[k |-> TETRA_NV, shape |-> "ref",
    offs |-> [i \in 1..MaxChain |-> ChainOffset(i)]]}

\* where the second element of a two-element mesh may be placed so that two
\* or three extents of the root box are equal
TieOffsets == { <<0, 8, 8>>, <<8, 8, 0>>, <<8, 0, 8>>, <<8, 8, 8>> }

\* meshes of two hexahedra whose root box has equal extents
TieMeshes ==
  {[k |-> HEX_NV, shape |-> "ref", offs |-> << <<0, 0, 0>>, o >>] :
     o \in TieOffsets}

\* meshes that are built and then traced: hexahedra
CastMeshes ==
  {[k |-> HEX_NV, shape |-> "ref", offs |-> o] :
     o \in { << <<0, 0, 0>> >>,
             << <<0, 0, 0>>, <<0, 12, 0>> >>,
             << <<0, 0, 0>>, <<0, 0, 8>> >>,
             << <<0, 0, 0>>, <<0, 12, 0>>, <<0, 0, 8>> >> }}

\* a traced mesh on which the arithmetic of the kernels rounds: one
\* hexahedron with edges of length 7, whose triangles have determinants
\* that are multiples of 49, traced along z and along a direction whose
\* reciprocal 1.0 / 49 is not exact
RoundingMeshes ==
  {[k |-> HEX_NV, shape |-> "seven", offs |-> << <<0, 0, 0>> >>]}
RoundingRows == { <<1, 1, -1>>, <<-42, 2, -1>> }
RoundingDirections == { <<0, 0, 1>>, <<49, 0, 1>> }

\* the traced meshes of at most two elements
TraceMeshes == {m \in CastMeshes : Len(m.offs) <= 2}

\* rows of the origins array
OriginRows == { <<1, 1, 2>>, <<14, -4, -4>>, <<1, 2, -4>>, <<0, 2, -4>> }
Directions == { <<0, 0, 1>> }
\* the rows of the batches traced under fair scheduling: a ray that hits the
\* first element from below and a ray that misses every element
TraceRows == { <<1, 2, -4>>, <<14, -4, -4>> }

\* what the output array holds before the call
Unwritten == NaN

\* the state before the constructor runs, for a mesh of the set M and
\* origins whose rows are drawn from R
InitOn(M, R) ==
  /\ phase = "new"
  /\ \E m \in M :
       /\ in_k = m.k
       /\ in_vertices = ShapedVertices(m.shape, m.k, m.offs)
       /\ in_indices = MeshIndices(m.k, m.offs)
       /\ in_field = MeshField(m.k, m.offs)
       /\ in_origins \in (IF m \in RoundingMeshes
                            THEN SeqsUpTo(RoundingRows, MaxRays)
                          ELSE IF m \in CastMeshes
                            THEN SeqsUpTo(R, MaxRays)
                          ELSE {<< >>})
       /\ nthreads \in (IF m \in CastMeshes \cup RoundingMeshes
                        THEN 1..MaxWorkers ELSE {1})
       /\ direction \in (IF m \in RoundingMeshes THEN RoundingDirections
                         ELSE Directions)
  /\ num_elem = 0
  /\ num_verts_per_elem = 0
  /\ num_tri_per_elem = 0
  /\ num_tri = 0
  /\ sampler = "None"
  /\ vertices = << >>
  /\ field_data = << >>
  /\ triangles = << >>
  /\ tris0 = << >>
  /\ splits = << >>
  /\ nodes = << >>
  /\ root = 0
  /\ bstack = << >>
  /\ error = "none"
  /\ image = [i \in 1..Len(in_origins) |-> Unwritten]
  /\ writes = [i \in 1..Len(in_origins) |-> << >>]
  /\ samples = << >>
  /\ todo = {}
  /\ wpc = [w \in 1..nthreads |-> "idle"]
  /\ ray = [w \in 1..nthreads |-> MallocRay]
  /\ rayp = [w \in 1..nthreads |-> 0]
  /\ visits = [w \in 1..nthreads |-> << >>]
  /\ cur = [w \in 1..nthreads |-> 0]
  /\ tstack = [w \in 1..nthreads |-> << >>]
  /\ freed = << >>

Init ==
  InitOn(BuildMeshes \cup ClusterMeshes \cup TieMeshes \cup ChainMeshes
           \cup CastMeshes \cup RoundingMeshes,
         OriginRows)

Next ==
  \/ CInit
  \/ RecursiveBuildEnter
  \/ RecursiveBuildFault
  \/ RecursiveBuildReturn
  \/ CastRays
  \/ \E w \in Workers : RayAlloc(w)
  \/ \E w \in Workers : LoadRay(w)
  \/ \E w \in Workers : NodeVisit(w)
  \/ \E w \in Workers : TriTest(w)
  \/ \E w \in Workers : IntersectFinish(w)
  \/ \E w \in Workers : WriteImage(w)
  \/ \E w \in Workers : RayFree(w)
  \/ CastReturn
  \/ Dealloc

Spec == Init /\ [][Next]_vars

\* the steps of thread w
WorkerStep(w) ==
  /\ w \in Workers
  /\ \/ RayAlloc(w) \/ LoadRay(w) \/ NodeVisit(w) \/ TriTest(w)
     \/ IntersectFinish(w) \/ WriteImage(w) \/ RayFree(w)

\* fair scheduling of the threads: a thread that can take a step eventually
\* takes one, and the parallel region is left when every thread has reached
\* its end
\* the calls made on a mesh that is traced: construction, one cast_rays
\* batch, deallocation
TraceNext ==
  \/ CInit
  \/ RecursiveBuildEnter
  \/ RecursiveBuildReturn
  \/ CastRays
  \/ \E w \in Workers : WorkerStep(w)
  \/ CastReturn
  \/ Dealloc

FairSpec ==
  /\ InitOn(TraceMeshes, TraceRows)
  /\ [][TraceNext]_vars
  /\ \A w \in 1..MaxWorkers : WF_vars(WorkerStep(w))
  /\ WF_vars(CastReturn)

\* the constructor alone, on a mesh with at least one triangle
BuildNext ==
  \/ CInit
  \/ RecursiveBuildEnter
  \/ RecursiveBuildReturn

\* the constructor runs on one thread and is not preempted for ever: a call
\* or return of _recursive_build that can be made is made
BuildFairSpec ==
  /\ InitOn({m \in BuildMeshes \cup ClusterMeshes \cup TieMeshes :
               /\ NumTriPerElem(m.k) * Len(m.offs) >= 1
               /\ m \in BuildMeshes => Len(m.offs) <= MaxFairElem}, {})
  /\ [][BuildNext]_vars
  /\ WF_vars(RecursiveBuildEnter)
  /\ WF_vars(RecursiveBuildReturn)

----------------------------------------------------------------------------
(* Properties *)

Built == phase \in {"built", "cast", "done"}
NodeIds == 1..Len(nodes)
Size(n) == nodes[n].end - nodes[n].begin
HasChildren(n) == nodes[n].left # 0 \/ nodes[n].right # 0
Range(n) == nodes[n].begin..(nodes[n].end - 1)

\* C1: in every tree the builder produces each node has begin <= end, the
\* root covers [0, num_tri), and the children of a node split its range:
\* left.begin = node.begin, left.end = right.begin, right.end = node.end.
\* Stated for the nodes as they are allocated, and for the finished tree.
C1_TreePartition ==
  /\ \A n \in NodeIds :
       /\ nodes[n].begin <= nodes[n].end
       /\ nodes[n].left # 0 =>
            /\ nodes[n].left \in NodeIds
            /\ nodes[nodes[n].left].begin = nodes[n].begin
       /\ nodes[n].right # 0 =>
            /\ nodes[n].right \in NodeIds
            /\ nodes[n].left # 0
            /\ nodes[nodes[n].left].end = nodes[nodes[n].right].begin
            /\ nodes[nodes[n].right].end = nodes[n].end
  /\ Built =>
       /\ root \in NodeIds
       /\ nodes[root].begin = 0
       /\ nodes[root].end = num_tri
       /\ \A n \in NodeIds : nodes[n].left # 0 <=> nodes[n].right # 0

\* a finished tree with an internal node below the root's right side
C1_Witness ==
  /\ Built
  /\ num_tri >= 1
  /\ \E n \in NodeIds : HasChildren(n) /\ nodes[n].begin > 0

\* C2: a node has children iff end - begin > LEAF_SIZE, so a leaf holds at
\* most LEAF_SIZE triangles; the traversal, which applies the same test,
\* never follows a child pointer the builder did not set, and the
\* destructor, which applies it too, frees every node exactly once.
C2_LeafRule ==
  /\ \A n \in NodeIds : Size(n) <= LEAF_SIZE => ~HasChildren(n)
  /\ Built =>
       \A n \in NodeIds :
         Size(n) > LEAF_SIZE => nodes[n].left # 0 /\ nodes[n].right # 0
  /\ phase = "cast" =>
       \A w \in Workers : \A e \in 1..Len(tstack[w]) :
         tstack[w][e].node \in NodeIds
  /\ phase = "freed" =>
       /\ Len(freed) = Len(nodes)
       /\ \A n \in NodeIds : \E e \in 1..Len(freed) : freed[e] = n

\* a tree with a leaf of exactly LEAF_SIZE triangles under an internal node
\* has been freed
C2_Witness ==
  /\ phase = "freed"
  /\ \E n \in NodeIds : Size(n) = LEAF_SIZE
  /\ \E n \in NodeIds : Size(n) > LEAF_SIZE

BoxIn(a, b) ==
  \A j \in 1..3 : /\ b.left_edge[j] <= a.left_edge[j]
                  /\ a.right_edge[j] <= b.right_edge[j]

\* C3: after the build, every triangle at a final index in a node's range
\* has its bounding box inside the node's bounding box.
C3_BoundingCorrectness ==
  Built =>
    \A n \in NodeIds : \A i \in Range(n) :
      BoxIn(At0(triangles, i).bbox, nodes[n].bbox)

\* a finished tree with two internal nodes whose triangles were reordered
C3_Witness ==
  /\ Built
  /\ triangles # tris0
  /\ Cardinality({n \in NodeIds : HasChildren(n)}) >= 2

\* the brute-force scan: ray_triangle_intersect on every triangle in index
\* order
BruteForce(tris, r) == LeafLoop(tris, r, 0, Len(tris))

\* the traversal of thread w has returned to BVH.intersect
TravDone(w) == phase = "cast" /\ wpc[w] = "trav" /\ tstack[w] = << >>

\* the origin cast_rays loads for iteration i
OriginOf(i) == LoadedOrigin(FlatOrigins(in_origins), NRays, i)

\* a thread's ray at the start of the traversal of iteration i
FreshRay(i) ==
  ResetRay([direction |-> direction,
            inv_dir |-> [c \in 1..3 |-> FRecip(direction[c])]] @@ MallocRay,
           OriginOf(i))

\* C4: the t_far and elem_id the traversal leaves in the ray are those of
\* the brute-force scan of the triangle array.
C4_HitCorrectness ==
  \A w \in Workers :
    TravDone(w) =>
      LET bf == BruteForce(triangles, FreshRay(cur[w]))
      IN  RayOf(w).t_far = bf.t_far /\ RayOf(w).elem_id = bf.elem_id

\* iteration i hits nothing: no triangle is accepted, or the box test fails
\* at the root
Misses(i) ==
  \/ BruteForce(triangles, FreshRay(i)).elem_id = -1
  \/ ~ray_bbox_intersect(FreshRay(i), nodes[root].bbox)

SamplesOf(i) == {e \in 1..Len(samples) : samples[e].i = i}

\* C5: a ray that hits nothing ends its traversal with elem_id = -1 and
\* t_far = INF, its output slot receives the initial data_val, 0, no
\* sampler call is made for it and no error is raised.
C5_MissCorrectness ==
  /\ phase = "cast" =>
       \A w \in Workers :
         ((TravDone(w) \/ wpc[w] = "write") /\ Misses(cur[w])) =>
           /\ RayOf(w).elem_id = -1
           /\ RayOf(w).t_far = INF
           /\ RayOf(w).data_val = F0
  /\ phase \in {"cast", "done"} =>
       /\ error = "none"
       /\ \A i \in 0..(NRays - 1) :
            (writes[i + 1] # << >> /\ Misses(i)) =>
              image[i + 1] = F0 /\ SamplesOf(i) = {}

\* a batch in which a ray that missed was written after a ray that hit
C5_Witness ==
  /\ phase = "done"
  /\ \E i, j \in 0..(NRays - 1) :
       /\ Misses(i)
       /\ writes[i + 1] # << >>
       /\ writes[j + 1] # << >>
       /\ writes[j + 1][1].elem_id >= 0
       /\ writes[i + 1][1].w = writes[j + 1][1].w

\* C6: the sampler is called at most once per ray, only when the traversal
\* of that ray has finished and left elem_id >= 0, with the vertex and field
\* blocks of that element and the point origin + t_far * direction; a ray
\* without a hit causes no call.
C6_SamplerProtocol ==
  /\ \A a, b \in 1..Len(samples) : a # b => samples[a].i # samples[b].i
  /\ \A e \in 1..Len(samples) :
       LET r == samples[e].before
           c == samples[e].call
           fin == _recursive_intersect(nodes, triangles,
                                       FreshRay(samples[e].i), root)
       IN  /\ r.elem_id >= 0
           /\ r.elem_id = fin.elem_id
           /\ r.t_far = fin.t_far
           /\ r.origin = OriginOf(samples[e].i)
           /\ c.vertex_ptr = r.elem_id * num_verts_per_elem * 3
           /\ c.field_ptr = r.elem_id * num_verts_per_elem
           /\ c.position = HitPosition(r)
  /\ phase = "cast" =>
       \A w \in Workers : wpc[w] = "trav" => SamplesOf(cur[w]) = {}
  /\ phase \in {"cast", "done"} =>
       \A i \in 0..(NRays - 1) :
         writes[i + 1] # << >> =>
           (writes[i + 1][1].elem_id < 0 <=> SamplesOf(i) = {})

\* a batch with one ray that was sampled and one that was not
C6_Witness ==
  /\ phase = "done"
  /\ Len(samples) = 1
  /\ NRays = 2

\* the value BVH.intersect computes for iteration i from a fresh ray
Expected(i) ==
  intersect(nodes, triangles, root, num_verts_per_elem, FreshRay(i)).data_val

\* C7: output slot i is stored to at most once, by the iteration with loop
\* index i and with the value computed for ray i; a slot not yet stored to
\* holds what it held before the call; when cast_rays returns every slot
\* has been stored to exactly once.
C7_OrderPreservation ==
  phase \in {"cast", "done"} =>
    /\ \A s \in 1..NRays :
         /\ Len(writes[s]) <= 1
         /\ writes[s] = << >> => image[s] = Unwritten
         /\ writes[s] # << >> =>
              /\ writes[s][1].i = s - 1
              /\ image[s] = writes[s][1].val
              /\ image[s] = Expected(s - 1)
    /\ phase = "done" => \A s \in 1..NRays : Len(writes[s]) = 1

\* two threads have each stored a slot of a batch of two rays with
\* different values
C7_Witness ==
  /\ phase = "done"
  /\ NRays = 2
  /\ writes[1][1].w # writes[2][1].w
  /\ image[1] # image[2]

\* C8: the output of a batch is a function of the origins, the direction
\* and the BVH alone: whatever the number of threads, the assignment of
\* iterations and the interleaving, image[i] is the value BVH.intersect
\* computes for ray i from a freshly reset ray; every traversal starts from
\* a reset ray.
C8_Determinism ==
  /\ phase = "done" => image = [s \in 1..NRays |-> Expected(s - 1)]
  /\ phase = "cast" =>
       \A w \in Workers :
         (wpc[w] = "trav" /\ tstack[w] = << Visit(root) >>) =>
           /\ RayOf(w).t_far = INF
           /\ RayOf(w).t_near = F0
           /\ RayOf(w).data_val = F0
           /\ RayOf(w).elem_id = -1

\* one thread has traced a ray that misses after a ray that hits
C8_Witness ==
  /\ phase = "done"
  /\ NRays = 2
  /\ writes[1][1].w = writes[2][1].w
  /\ \E s, t \in 1..2 : writes[s][1].elem_id >= 0 /\ writes[t][1].elem_id < 0

SupportedTopologies == {TETRA_NV, WEDGE_NV, HEX_NV}

\* C9: a constructor call with an unsupported number of vertices per
\* element that returns has raised UnsupportedTopology and built no
\* triangle array and no tree.
C9_UnsupportedTopology ==
  (in_k \notin SupportedTopologies /\ phase \notin {"new", "build", "crashed"})
    => (error = "UnsupportedTopology" /\ nodes = << >> /\ root = 0)

\* C10: from the return of the constructor to the destructor no step
\* changes the tree, the triangle array or the vertex and field copies, and
\* a step of the parallel region changes the Ray of one thread only and no
\* output slot but the one of that thread's iteration.
C10_ReadOnlyTraversal ==
  [][(Built /\ phase' # "freed") =>
       /\ UNCHANGED <<nodes, root, triangles, vertices, field_data, num_elem,
                      num_verts_per_elem, num_tri_per_elem, num_tri, sampler>>
       /\ phase = "cast" =>
            \E w \in Workers :
              /\ \A a \in RayAddrs \ {rayp'[w]} : ray'[a] = ray[a]
              /\ \A s \in 1..NRays :
                   (image'[s] # image[s] \/ writes'[s] # writes[s]) =>
                     (wpc[w] = "write" /\ s = cur[w] + 1)]_vars

\* a ray has been traced to a hit and stored
C10_Witness ==
  /\ phase = "done"
  /\ \E s \in 1..NRays : writes[s][1].elem_id >= 0

\* thread w takes the step
Acting(w) ==
  wpc'[w] # wpc[w] \/ tstack'[w] # tstack[w] \/ cur'[w] # cur[w]

\* C11: in the parallel region the threads that hold a Ray hold pairwise
\* different blocks, and a step changes a Ray block only if the thread that
\* takes the step holds that block: no thread uses another thread's Ray.
C11_RayOwnership ==
  [][phase' = "cast" =>
       /\ \A w, v \in Workers :
            (w # v /\ HoldsRay(w)' /\ HoldsRay(v)') => rayp'[w] # rayp'[v]
       /\ \A a \in RayAddrs :
            ray'[a] # ray[a] =>
              \E w \in Workers :
                rayp'[w] = a /\ HoldsRay(w)' /\ Acting(w)]_vars

\* two threads are in their traversals at once, one of them has recorded a
\* hit and the other has not
C11_Witness ==
  /\ phase = "cast"
  /\ nthreads = 2
  /\ wpc[1] = "trav" /\ wpc[2] = "trav"
  /\ RayOf(1).origin # RayOf(2).origin
  /\ RayOf(1).elem_id >= 0
  /\ RayOf(2).elem_id = -1

\* the batch is complete: cast_rays has returned, every slot has been
\* stored to once and every thread has released its Ray
BatchDone ==
  /\ phase = "done"
  /\ \A s \in 1..NRays : Len(writes[s]) = 1
  /\ \A w \in Workers : wpc[w] = "exit"
  /\ HeldRays = {}

\* C12: under fair scheduling a batch handed to cast_rays is completed:
\* every traversal a thread has begun ends, whatever the other threads do,
\* every slot is stored to, every thread releases its Ray and the call
\* returns.
C12_BatchCompletion ==
  /\ (phase = "cast") ~> BatchDone
  /\ \A w \in 1..MaxWorkers :
       (phase = "cast" /\ w \in Workers /\ wpc[w] = "trav")
         ~> (w \in Workers /\ wpc[w] = "write")

\* a batch of two rays is complete, each ray traced by its own thread, one
\* ray with a hit and one without
C12_Witness ==
  /\ BatchDone
  /\ NRays = 2
  /\ nthreads = 2
  /\ writes[1][1].w # writes[2][1].w
  /\ writes[1][1].elem_id # writes[2][1].elem_id

\* how often the triangle t occurs in the array s
Occurrences(s, t) == Cardinality({i \in 1..Len(s) : s[i] = t})

\* C13: while the builder runs and when it has finished, the triangle array
\* is a permutation of the array the constructor filled: it has the same
\* length and every triangle (vertices, centroid, bounding box and elem_id
\* together) occurs in it as often as in the filled array; and every element
\* owns exactly num_tri_per_elem triangles.
C13_BuildOnlyPermutes ==
  phase \in {"build", "built"} =>
    /\ Len(triangles) = Len(tris0)
    /\ \A i \in 1..Len(tris0) :
         Occurrences(triangles, tris0[i]) = Occurrences(tris0, tris0[i])
    /\ \A e \in 0..(num_elem - 1) :
         Cardinality({i \in 1..Len(triangles) : triangles[i].elem_id = e})
           = num_tri_per_elem

\* a finished build that has reordered the triangles of three elements
C13_Witness ==
  /\ phase = "built"
  /\ num_elem >= 3
  /\ triangles # tris0
  /\ \E n \in NodeIds : HasChildren(n)

\* the nodes for which _recursive_build went past its leaf test
Internal(n) == n \in 1..Len(splits) /\ splits[n].ax >= 0

\* centroid[ax] of the triangle at index i
CentroidAt(i, ax) == At0(At0(triangles, i).centroid, ax)

\* C14: for every node the builder has partitioned, with mid the value
\* _partition returned, every triangle at an index in [begin, mid) has
\* centroid[ax] <= split and every triangle at an index in [mid, end) has
\* centroid[ax] > split (the later partitions of the children reorder each
\* side within itself only).
C14_PartitionDirection ==
  phase \in {"build", "built"} =>
    \A n \in NodeIds :
      Internal(n) =>
        /\ \A i \in nodes[n].begin..(splits[n].pmid - 1) :
             FLe(CentroidAt(i, splits[n].ax), splits[n].split)
        /\ \A i \in splits[n].pmid..(nodes[n].end - 1) :
             FGt(CentroidAt(i, splits[n].ax), splits[n].split)

\* the extent of the box of node n along axis a
Extent(n, a) ==
  Abs(At0(nodes[n].bbox.right_edge, a) - At0(nodes[n].bbox.left_edge, a))

\* C15: for every internal node the axis _recursive_build chose is one along
\* which the node's box has the greatest extent.
C15_SplitAxis ==
  phase \in {"build", "built"} =>
    \A n \in NodeIds :
      Internal(n) => \A a \in 0..2 : Extent(n, splits[n].ax) >= Extent(n, a)

\* the greatest extent of the box of node n
MaxExtent(n) == Max2(Max2(Extent(n, 0), Extent(n, 1)), Extent(n, 2))

\* the axes along which the box of node n has its greatest extent
LongestAxes(n) == {a \in 0..2 : Extent(n, a) = MaxExtent(n)}

\* C16: when two or three axes share the greatest extent of an internal
\* node's box the builder chooses the lowest of them, and the extent along
\* the chosen axis is strictly greater than the extent along every axis of
\* lower index.
C16_SplitAxisTieBreak ==
  phase \in {"build", "built"} =>
    \A n \in NodeIds :
      Internal(n) =>
        /\ Cardinality(LongestAxes(n)) >= 2 =>
             \A a \in LongestAxes(n) : splits[n].ax <= a
        /\ \A a \in 0..2 :
             a < splits[n].ax => Extent(n, splits[n].ax) > Extent(n, a)

\* C17: whenever _partition returned begin or end for an internal node the
\* builder used begin + (end - begin) / 2 in its place, and otherwise the
\* value returned; no error is raised; both children of every internal node
\* are non-empty and smaller than the node.
C17_DegenerateRecovery ==
  /\ phase \in {"build", "built"} => error = "none"
  /\ phase \in {"build", "built"} =>
       \A n \in NodeIds :
         Internal(n) =>
           LET b == nodes[n].begin
               e == nodes[n].end
           IN  /\ splits[n].mid =
                    IF splits[n].pmid = b \/ splits[n].pmid = e
                    THEN b + ((e - b) \div 2) ELSE splits[n].pmid
               /\ b < splits[n].mid
               /\ splits[n].mid < e
               /\ nodes[n].left # 0 =>
                    /\ nodes[nodes[n].left].begin = b
                    /\ nodes[nodes[n].left].end = splits[n].mid
               /\ nodes[n].right # 0 =>
                    /\ nodes[nodes[n].right].begin = splits[n].mid
                    /\ nodes[nodes[n].right].end = e

\* a finished tree with a node whose partition left the left side empty and
\* a finished tree with a node whose partition left the right side empty
C17_Witness ==
  /\ phase = "built"
  /\ \E n \in NodeIds :
       /\ Internal(n)
       /\ splits[n].pmid = nodes[n].begin
       /\ splits[n].mid = nodes[n].begin + (Size(n) \div 2)
       /\ Size(nodes[n].left) > 0
       /\ Size(nodes[n].right) > 0

\* a node whose partition put every triangle on the left
C17_WitnessAllLeft ==
  /\ phase = "built"
  /\ \E n \in NodeIds : Internal(n) /\ splits[n].pmid = nodes[n].end

\* C18: for every triangle array with at least one triangle the build that
\* the constructor starts ends, with the root stored and no activation of
\* _recursive_build left, and at no time has it created more than
\* 2 * num_tri - 1 nodes.
C18_BuildTermination ==
  /\ (phase = "build" /\ num_tri >= 1)
       ~> (phase = "built" /\ bstack = << >> /\ root # 0)
  /\ [](phase \in {"build", "built"} /\ num_tri >= 1
          => Len(nodes) <= 2 * num_tri - 1)

\* a finished tree over triangles whose centroids all coincide, and whose
\* every partition was degenerate
C18_Witness ==
  /\ phase = "built"
  /\ num_tri > LEAF_SIZE
  /\ \A i \in 1..Len(triangles) : triangles[i].centroid = triangles[1].centroid
  /\ Len(nodes) = 3
  /\ splits[1].pmid = 0

\* the number of nodes on the longest path from node n down to a leaf
RECURSIVE Depth(_)
Depth(n) ==
  IF n = 0 THEN 0
  ELSE 1 + Max2(Depth(nodes[n].left), Depth(nodes[n].right))

\* the least k with 2^k >= n, for n >= 1
RECURSIVE CeilLog2From(_, _)
CeilLog2From(n, k) == IF 2 ^ k >= n THEN k ELSE CeilLog2From(n, k + 1)
CeilLog2(n) == CeilLog2From(n, 0)

\* C19: in every built tree over N >= 1 triangles no path from the root to a
\* leaf has more than ceil(log2(N)) + 1 nodes.
C19_BalancedDepth ==
  (phase = "built" /\ num_tri >= 1) => Depth(root) <= CeilLog2(num_tri) + 1

\* C20: after the build, on each axis the left edge of the box of every node
\* with a non-empty range is the least left edge, and its right edge the
\* greatest right edge, of the triangles at the final indices of its range.
C20_TightNodeBoxes ==
  phase = "built" =>
    \A n \in NodeIds :
      nodes[n].begin < nodes[n].end =>
        \A c \in 1..3 :
          /\ \A i \in Range(n) :
               /\ nodes[n].bbox.left_edge[c] <= At0(triangles, i).bbox.left_edge[c]
               /\ At0(triangles, i).bbox.right_edge[c] <= nodes[n].bbox.right_edge[c]
          /\ \E i \in Range(n) :
               nodes[n].bbox.left_edge[c] = At0(triangles, i).bbox.left_edge[c]
          /\ \E i \in Range(n) :
               nodes[n].bbox.right_edge[c] = At0(triangles, i).bbox.right_edge[c]

\* a finished tree whose root range was reordered after the root box was
\* computed, with a child whose box does not reach the origin
C20_Witness ==
  /\ phase = "built"
  /\ triangles # tris0
  /\ \E n \in NodeIds :
       /\ HasChildren(n)
       /\ nodes[nodes[n].left].bbox.left_edge # <<0, 0, 0>>
       /\ nodes[nodes[n].left].bbox # nodes[n].bbox

\* thread w is about to call ray_triangle_intersect
Scanning(w) ==
  /\ phase = "cast"
  /\ wpc[w] = "trav"
  /\ tstack[w] # << >>
  /\ Top(tstack[w]).pc = "scan"

\* the triangle thread w is about to test
ScannedTriangle(w) == At0(triangles, Top(tstack[w]).i)

\* the determinant of the matrix with columns a, b, c
Det3(a, b, c) ==
  a[1] * (b[2] * c[3] - b[3] * c[2])
  - a[2] * (b[1] * c[3] - b[3] * c[1])
  + a[3] * (b[1] * c[2] - b[2] * c[1])

\* the solution (u, v, t) of origin + t * direction = p0 + u * (p1 - p0)
\* + v * (p2 - p0) by Cramer's rule, as doubles: each numerator times the
\* reciprocal of the determinant; NaN components when the system is
\* singular
HitCoordinates(r, tri) ==
  LET a == <<tri.p1[1] - tri.p0[1], tri.p1[2] - tri.p0[2],
             tri.p1[3] - tri.p0[3]>>
      b == <<tri.p2[1] - tri.p0[1], tri.p2[2] - tri.p0[2],
             tri.p2[3] - tri.p0[3]>>
      c == <<-r.direction[1], -r.direction[2], -r.direction[3]>>
      rhs == <<r.origin[1] - tri.p0[1], r.origin[2] - tri.p0[2],
               r.origin[3] - tri.p0[3]>>
      m == Det3(a, b, c)
  IN  IF m = 0 THEN [det |-> 0, u |-> NaN, v |-> NaN, t |-> NaN]
      ELSE [det |-> m,
            u |-> FMul(FromInt(Det3(rhs, b, c)), FRecip(m)),
            v |-> FMul(FromInt(Det3(a, rhs, c)), FRecip(m)),
            t |-> FMul(FromInt(Det3(a, b, rhs)), FRecip(m))]

\* u in [0, 1], v in [0, 1], u + v <= 1 and epsilon < t < ray.t_far
InHitWindow(r, tri) ==
  LET h == HitCoordinates(r, tri)
  IN  /\ h.det # 0
      /\ FLe(F0, h.u) /\ FLe(h.u, F1)
      /\ FLe(F0, h.v) /\ FLe(h.v, F1)
      /\ FLe(FAdd(h.u, h.v), F1)
      /\ GtEps(h.t)
      /\ FLt(h.t, r.t_far)

\* C21: for every ray and triangle a traversal hands to
\* ray_triangle_intersect, the call returns true exactly when u, v lie in
\* [0, 1] with u + v <= 1 and epsilon < t < ray.t_far; then it leaves the
\* ray with t_far = t and elem_id = tri.elem_id and nothing else changed;
\* otherwise it leaves the ray as it was.
C21_NearestHitWindow ==
  \A w \in Workers :
    Scanning(w) =>
      LET r == RayOf(w)
          tri == ScannedTriangle(w)
          res == ray_triangle_intersect(r, tri)
      IN  /\ res.hit <=> InHitWindow(r, tri)
          /\ res.hit =>
               res.ray = [r EXCEPT !.t_far = HitCoordinates(r, tri).t,
                                   !.elem_id = tri.elem_id]
          /\ ~res.hit => res.ray = r

\* a thread is about to test a triangle that the ray meets at exactly the
\* distance of the hit it has recorded
C21_Witness ==
  \E w \in Workers :
    /\ Scanning(w)
    /\ RayOf(w).elem_id >= 0
    /\ HitCoordinates(RayOf(w), ScannedTriangle(w)).t = RayOf(w).t_far
    /\ FLe(F0, HitCoordinates(RayOf(w), ScannedTriangle(w)).u)
    /\ FLe(F0, HitCoordinates(RayOf(w), ScannedTriangle(w)).v)
    /\ FLe(FAdd(HitCoordinates(RayOf(w), ScannedTriangle(w)).u,
                HitCoordinates(RayOf(w), ScannedTriangle(w)).v), F1)
    /\ ~ray_triangle_intersect(RayOf(w), ScannedTriangle(w)).hit

\* a thread holds the hit of a ray that meets a face at the distance 1 and
\* whose recorded distance is 49 * (1.0 / 49) = 1 - 2^-53
C21_WitnessRounded ==
  \E w \in Workers :
    /\ Scanning(w)
    /\ RayOf(w).elem_id >= 0
    /\ RayOf(w).t_far = FMul(FromInt(49), FRecip(49))
    /\ FLt(RayOf(w).t_far, F1)

\* C22: when the determinant of the pair a thread is about to test is below
\* the epsilon in absolute value (0 for the integer coordinates of the
\* model), ray_triangle_intersect returns false, the step leaves every Ray
\* and the error state as they were, and the leaf loop goes on to the next
\* triangle of the leaf, or returns when the leaf has none left.
C22_DegenerateMiss ==
  [][\A w \in Workers :
       (/\ Scanning(w)
        /\ HitCoordinates(RayOf(w), ScannedTriangle(w)).det = 0
        /\ tstack'[w] # tstack[w])
       => /\ ~ray_triangle_intersect(RayOf(w), ScannedTriangle(w)).hit
          /\ ray' = ray
          /\ error' = "none"
          /\ phase' = "cast"
          /\ wpc'[w] = "trav"
          /\ tstack'[w] =
               IF Top(tstack[w]).i + 1 < nodes[Top(tstack[w]).node].end
               THEN SetTop(tstack[w],
                           [Top(tstack[w]) EXCEPT !.i = Top(tstack[w]).i + 1])
               ELSE Pop(tstack[w])]_vars

\* a thread that holds a hit is about to test a triangle parallel to its
\* ray, with triangles of the leaf left after it
C22_Witness ==
  \E w \in Workers :
    /\ Scanning(w)
    /\ HitCoordinates(RayOf(w), ScannedTriangle(w)).det = 0
    /\ RayOf(w).elem_id >= 0
    /\ Top(tstack[w]).i + 1 < nodes[Top(tstack[w]).node].end

\* thread w is about to call ray_bbox_intersect on the node on top of its
\* stack
BoxTesting(w) ==
  /\ phase = "cast"
  /\ wpc[w] = "trav"
  /\ tstack[w] # << >>
  /\ Top(tstack[w]).pc = "enter"

\* the box thread w is about to test
TestedBox(w) == nodes[Top(tstack[w]).node].bbox

\* the parameters t for which origin + t * direction lies between the two
\* planes of the box on axis c: empty, or the interval [lo, hi]
AxisInterval(r, bbox, c) ==
  LET o == r.origin[c]
      d == r.direction[c]
      l == bbox.left_edge[c]
      h == bbox.right_edge[c]
  IN  IF d = 0
        THEN IF l <= o /\ o <= h
               THEN [empty |-> FALSE, lo |-> NInf, hi |-> PInf]
               ELSE [empty |-> TRUE, lo |-> PInf, hi |-> NInf]
      ELSE [empty |-> FALSE,
            lo |-> fmin(Fin(l - o, d), Fin(h - o, d)),
            hi |-> fmax(Fin(l - o, d), Fin(h - o, d))]

\* the intersection [t_min, t_max] of the three per-axis intervals is
\* non-empty and t_max >= 0
SlabHit(r, bbox) ==
  LET I == [c \in 1..3 |-> AxisInterval(r, bbox, c)]
      t_min == fmax(fmax(I[1].lo, I[2].lo), I[3].lo)
      t_max == fmin(fmin(I[1].hi, I[2].hi), I[3].hi)
  IN  /\ \A c \in 1..3 : ~I[c].empty
      /\ FGe(t_max, t_min)
      /\ FGe(t_max, F0)

\* C23: for every ray and box a traversal hands to ray_bbox_intersect, the
\* call reports a hit exactly when the intersection of the three per-axis
\* parametric intervals is non-empty and its upper end is >= 0, and the
\* result is the same whatever the ray's t_near and t_far are.
C23_SlabTest ==
  \A w \in Workers :
    BoxTesting(w) =>
      /\ ray_bbox_intersect(RayOf(w), TestedBox(w))
           <=> SlabHit(RayOf(w), TestedBox(w))
      /\ \A tn, tf \in {F0, F1, INF} :
           ray_bbox_intersect([RayOf(w) EXCEPT !.t_near = tn, !.t_far = tf],
                              TestedBox(w))
             <=> ray_bbox_intersect(RayOf(w), TestedBox(w))

\* a box test in which the origin lies on no plane of the box and the two
\* sides of C23 still differ: the per-axis intervals meet in the single
\* parameter 1, and the rounded product 49 * (1.0 / 49) puts the upper end
\* of the x interval below it
C23_WitnessRounding ==
  \E w \in Workers :
    /\ BoxTesting(w)
    /\ \A c \in 1..3 :
         /\ RayOf(w).origin[c] # TestedBox(w).left_edge[c]
         /\ RayOf(w).origin[c] # TestedBox(w).right_edge[c]
    /\ SlabHit(RayOf(w), TestedBox(w))
    /\ ~ray_bbox_intersect(RayOf(w), TestedBox(w))

\* ---------------------------------------------------------------------
\* Traversal order

IsPrefix(a, b) == Len(a) <= Len(b) /\ SubSeq(b, 1, Len(a)) = a

\* the tests the traversal of the subtree of node n makes for ray r, in
\* order: the box test of n; nothing more when it fails; the triangles of
\* [begin, end) in increasing index order when n is a leaf; otherwise the
\* tests of the left subtree followed by those of the right subtree
RECURSIVE ExpectedVisits(_, _)
ExpectedVisits(n, r) ==
  LET hit == ray_bbox_intersect(r, nodes[n].bbox)
      here == << [k |-> "box", n |-> n, hit |-> hit] >>
  IN  IF ~hit THEN here
      ELSE IF ~HasChildren(n)
        THEN here \o [j \in 1..Size(n) |->
                        [k |-> "tri", i |-> nodes[n].begin + j - 1]]
      ELSE here \o ExpectedVisits(nodes[n].left, r)
                \o ExpectedVisits(nodes[n].right, r)

Traversing(w) == phase = "cast" /\ wpc[w] \in {"trav", "write"}

\* C24: for each ray, a node whose box test fails has nothing of its
\* subtree tested; a leaf whose box test passes has every triangle of
\* [begin, end) tested once in increasing index order; an internal node
\* whose box test passes has both children visited, left before right, each
\* box-tested on entry, also after a hit was found in the first child.  The
\* tests a thread has made so far are a prefix of that order and, when its
\* traversal has returned, the whole of it.
C24_TraversalOrder ==
  \A w \in Workers :
    Traversing(w) =>
      LET exp == ExpectedVisits(root, RayOf(w))
      IN  /\ IsPrefix(visits[w], exp)
          /\ (wpc[w] = "write" \/ tstack[w] = << >>) => visits[w] = exp

\* a finished traversal of a tree with an internal root in which the scan
\* of the left child found a hit and the right child was still box-tested
\* and scanned, and one in which a child's box test failed
C24_Witness ==
  \E w \in Workers :
    /\ phase = "cast"
    /\ wpc[w] = "write"
    /\ HasChildren(root)
    /\ LeafLoop(triangles, FreshRay(cur[w]), nodes[nodes[root].left].begin,
                nodes[nodes[root].left].end).elem_id >= 0
    /\ \E p \in 1..Len(visits[w]) :
         /\ visits[w][p] = [k |-> "box", n |-> nodes[root].right, hit |-> TRUE]
         /\ p < Len(visits[w])
         /\ visits[w][Len(visits[w])].k = "tri"
         /\ \E q \in 1..(p - 1) : visits[w][q].k = "tri"

C24_WitnessPruned ==
  \E w \in Workers :
    /\ phase = "cast"
    /\ wpc[w] = "write"
    /\ HasChildren(root)
    /\ \E p \in 1..Len(visits[w]) :
         /\ visits[w][p].k = "box"
         /\ visits[w][p].n # root
         /\ ~visits[w][p].hit

\* ---------------------------------------------------------------------
\* The hit window of a ray

\* the triangle tests of the thread's traversal so far
TestedIndices(w) ==
  {visits[w][p].i : p \in {q \in 1..Len(visits[w]) : visits[w][q].k = "tri"}}

\* in a traversal the sentinel elem_id = -1 goes with t_far = INF, and a
\* ray that leaves its traversal with the sentinel was accepted by none of
\* the triangles it was tested against
SentinelIffInf ==
  \A w \in Workers :
    Traversing(w) =>
      /\ RayOf(w).elem_id = -1 <=> RayOf(w).t_far = INF
      /\ (RayOf(w).elem_id = -1 /\ (wpc[w] = "write" \/ tstack[w] = << >>)) =>
           \A i \in TestedIndices(w) :
             ~ray_triangle_intersect(FreshRay(cur[w]), At0(triangles, i)).hit

\* a step of the traversal of one ray does not increase t_far and changes
\* elem_id only when it strictly decreases t_far
WindowShrinks ==
  \A w \in Workers :
    (phase = "cast" /\ wpc[w] = "trav" /\ wpc'[w] \in {"trav", "write"}) =>
      /\ FLe(ray'[rayp'[w]].t_far, RayOf(w).t_far)
      /\ ray'[rayp'[w]].elem_id # RayOf(w).elem_id =>
           FLt(ray'[rayp'[w]].t_far, RayOf(w).t_far)

\* C25: during the traversal of one ray t_far never increases, elem_id
\* changes only in a step that strictly decreases t_far, and elem_id = -1
\* holds exactly when t_far is still its initial value INF, so that a ray
\* whose elem_id is -1 after its traversal had no intersection.
C25_ShrinkingWindow == []SentinelIffInf /\ [][WindowShrinks]_vars

\* a traversal in which a hit found in the left child was replaced by a
\* nearer hit of another element found in the right child
C25_Witness ==
  \E w \in Workers :
    /\ phase = "cast"
    /\ wpc[w] = "write"
    /\ HasChildren(root)
    /\ LET first == LeafLoop(triangles, FreshRay(cur[w]),
                             nodes[nodes[root].left].begin,
                             nodes[nodes[root].left].end)
       IN  /\ first.elem_id >= 0
           /\ RayOf(w).elem_id >= 0
           /\ RayOf(w).elem_id # first.elem_id
           /\ FLt(RayOf(w).t_far, first.t_far)

\* ---------------------------------------------------------------------
\* Well-formed boxes

\* left_edge[c] <= right_edge[c] on all three axes; nothing makes it so for
\* a box whose coordinates may be any doubles
WellFormed(box) ==
  /\ ~IsIndeterminate(box)
  /\ \A c \in 1..3 : box.left_edge[c] <= box.right_edge[c]

\* the boxes of the triangles the constructor filled in
TriangleBoxesWellFormed ==
  \A i \in 1..Len(triangles) : WellFormed(triangles[i].bbox)

\* the boxes of the nodes the builder has made so far
NodeBoxesWellFormed ==
  \A n \in 1..Len(nodes) : WellFormed(nodes[n].bbox)

\* C26: every triangle bounding box computed by the constructor and every
\* node bounding box computed by the builder has left_edge[c] <=
\* right_edge[c] on all three axes, boxes of zero extent included.
C26_BoxWellFormedness ==
  phase # "new" => TriangleBoxesWellFormed /\ NodeBoxesWellFormed

\* the same for the nodes built over a non-empty range
C26_NonEmptyRanges ==
  phase # "new" =>
    /\ TriangleBoxesWellFormed
    /\ \A n \in 1..Len(nodes) :
         nodes[n].begin < nodes[n].end => WellFormed(nodes[n].bbox)

\* a finished tree with a triangle box of zero extent on an axis
C26_Degenerate ==
  /\ phase = "built"
  /\ \E i \in 1..Len(triangles) : \E c \in 1..3 :
       triangles[i].bbox.left_edge[c] = triangles[i].bbox.right_edge[c]
  /\ \E n \in 1..Len(nodes) : HasChildren(n)

\* ---------------------------------------------------------------------
\* Element ids and the blocks handed to the sampler

ElemIds == 0..(num_elem - 1)

\* the block [ptr, ptr + len) lies inside a buffer of the given size
BlockInside(ptr, len, size) == 0 <= ptr /\ ptr + len <= size

\* C27: every triangle's elem_id lies in [0, num_elem) before and after the
\* build, so a ray's elem_id during and after a traversal is -1 or in
\* [0, num_elem), and whenever intersect calls the sampler the vertex block
\* [elem_id*k*3, elem_id*k*3 + k*3) and the field block [elem_id*k,
\* elem_id*k + k) lie inside the flattened copies, of sizes num_elem*k*3
\* and num_elem*k.
C27_ElemIdRange ==
  phase # "new" =>
    /\ Len(vertices) = num_elem * num_verts_per_elem * 3
    /\ Len(field_data) = num_elem * num_verts_per_elem
    /\ \A i \in 1..Len(triangles) : triangles[i].elem_id \in ElemIds
    /\ \A w \in Workers :
         Traversing(w) => RayOf(w).elem_id \in ElemIds \cup {-1}
    /\ \A e \in 1..Len(samples) :
         /\ samples[e].before.elem_id \in ElemIds
         /\ samples[e].call.vertex_ptr
              = samples[e].before.elem_id * num_verts_per_elem * 3
         /\ samples[e].call.field_ptr
              = samples[e].before.elem_id * num_verts_per_elem
         /\ BlockInside(samples[e].call.vertex_ptr, num_verts_per_elem * 3,
                        Len(vertices))
         /\ BlockInside(samples[e].call.field_ptr, num_verts_per_elem,
                        Len(field_data))

\* a sampler call for the last element of a mesh of several elements whose
\* triangles the build reordered: its blocks end at the end of the copies
C27_Witness ==
  /\ phase = "cast"
  /\ num_elem >= 2
  /\ triangles # tris0
  /\ \E e \in 1..Len(samples) :
       /\ samples[e].before.elem_id = num_elem - 1
       /\ samples[e].call.vertex_ptr + num_verts_per_elem * 3 = Len(vertices)
       /\ samples[e].call.field_ptr + num_verts_per_elem = Len(field_data)

\* ---------------------------------------------------------------------
\* The frame of _partition

\* the call _recursive_build(begin, end) about to be entered
Entering == phase = "build" /\ bstack # << >> /\ Top(bstack).pc = "enter"

\* the indices the pass of the loop of _partition at index j reads: mid
\* always, begin when the first test fails
PassReads(tris, b, j, ax, split) ==
  LET before == PartitionLoop(tris, b, b, j, ax, split)
  IN  {before.mid} \cup
      (IF FGt(At0(At0(before.triangles, before.mid).centroid, ax), split)
       THEN {} ELSE {j})

\* the indices _partition(b, e, ax, split) reads
PartitionReads(tris, b, e, ax, split) ==
  UNION {PassReads(tris, b, j, ax, split) : j \in b..(e - 1)}

\* a step that enters _recursive_build(b, e): every index _partition reads
\* is in [b, e), every position outside [b, e) keeps its triangle, the mid
\* it returns has b <= mid <= e, and the range of every node built before
\* that lies outside [b, e) keeps its triangles
PartitionFrame ==
  (Entering /\ nodes' # nodes) =>
    LET b == Top(bstack).begin
        e == Top(bstack).end
        n == Len(nodes')
    IN  /\ \A i \in 0..(Len(triangles) - 1) :
             (i < b \/ i >= e) => At0(triangles', i) = At0(triangles, i)
        /\ Len(triangles') = Len(triangles)
        /\ \A m \in 1..Len(nodes) :
             (nodes[m].end <= b \/ nodes[m].begin >= e) =>
               \A i \in Range(m) : At0(triangles', i) = At0(triangles, i)
        /\ splits'[n].ax >= 0 =>
             /\ b <= splits'[n].pmid /\ splits'[n].pmid <= e
             /\ PartitionReads(triangles, b, e, splits'[n].ax,
                               splits'[n].split) \subseteq b..(e - 1)

\* C28: _partition(begin, end, ax, split) reads and swaps only positions in
\* [begin, end), leaves every position outside that range unchanged and
\* returns mid with begin <= mid <= end, so building a subtree never
\* disturbs the triangles in the range of the left sibling or of any
\* other node outside the range.
C28_PartitionFrame == [][PartitionFrame]_vars

\* the build has just partitioned, with exchanges, the range of a right
\* child whose left sibling is already built, and the range does not reach
\* the end of the array
C28_Witness ==
  /\ phase = "build"
  /\ Len(nodes) >= 3
  /\ LET n == Len(nodes)
     IN  /\ splits[n].ax >= 0
         /\ splits[n].moved
         /\ nodes[n].begin > 0
         /\ nodes[n].end < num_tri
         /\ nodes[n].begin < splits[n].pmid
         /\ splits[n].pmid < nodes[n].end
         /\ \E m \in 1..(n - 1) :
              /\ nodes[m].end = nodes[n].begin
              /\ \E q \in 1..(n - 1) : nodes[q].left = m

\* ---------------------------------------------------------------------
\* The reads of _get_node_bbox

\* the triangle indices _get_node_bbox(node, begin, end) reads: begin for
\* the initial box, then begin + 1, ..., end - 1 in the loop
BBoxReads(begin, end) == {begin} \cup (begin + 1)..(end - 1)

ReadsInRange(begin, end) ==
  \A i \in BBoxReads(begin, end) : begin <= i /\ i < end /\ i < num_tri

\* C29: for every mesh the constructor accepts, a mesh with zero elements
\* included, every call of _get_node_bbox(node, begin, end) reads only
\* triangle indices i with begin <= i < end and i < num_tri; no node is
\* built over an empty range whose first triangle is read.
C29_BBoxScanInRange ==
  /\ Entering => ReadsInRange(Top(bstack).begin, Top(bstack).end)
  /\ phase # "crashed"

\* the same for the meshes with at least one triangle
C29_NonEmptyMesh ==
  (Entering /\ num_tri >= 1) =>
    ReadsInRange(Top(bstack).begin, Top(bstack).end)

\* ---------------------------------------------------------------------
\* The origin of a ray

\* row i of the (N, 3) array origins
OriginRow(i) == At0(in_origins, i)

\* C30: for test_ray_trace called with an origins array of shape (N, 3)
\* stored row-major, the origin cast_rays traces for ray i is the row
\* (origins[i,0], origins[i,1], origins[i,2]), for every N >= 1 and every
\* i < N; no origin is assembled from components of other rays' rows.
C30_OriginAddressing ==
  \A w \in Workers : Traversing(w) => RayOf(w).origin = OriginRow(cur[w])

\* the same for a batch of one ray
C30_SingleRay ==
  \A w \in Workers :
    (Traversing(w) /\ NRays = 1) => RayOf(w).origin = OriginRow(cur[w])

====
